---- MODULE Spec2Model ----
(***************************************************************************)
(* A model of the ruchess engine: the piece/position value types, the      *)
(* board with its pseudo-legal move generation and check detection, the    *)
(* GameState turn machine, and the Tauri command layer with its two        *)
(* mutex-guarded globals (GAME_STATE, MOVE_HISTORY) and the background AI  *)
(* worker.                                                                 *)
(*                                                                         *)
(* Option<T> is modelled as a sequence of length at most one:              *)
(* None = <<>> and Some(v) = <<v>>.  Vec<T> is a sequence.  Result<(),     *)
(* String> is the string "Ok" or the error message.                        *)
(***************************************************************************)
EXTENDS Integers, Sequences, FiniteSets, TLC

VARIABLES
    gs,        \* GAME_STATE: the shared GameState value
    history,   \* MOVE_HISTORY: Vec<GameState> of undo snapshots
    cmd,       \* the command the command thread is inside of (Idle between commands)
    pending,   \* number of spawned AI worker threads that have not run yet
    spawned,   \* number of AI worker threads spawned so far
    call,      \* the core operation most recently invoked, with its arguments
    ret,       \* what that operation returned
    pre,       \* the GameState value the most recent core operation was invoked on
    at,        \* for each concurrent caller, the point it has reached in its command
    holder     \* for each of the two mutexes, the caller that holds it

vars == <<gs, history, cmd, pending, spawned, call, ret, pre, at, holder>>

---------------------------------------------------------------------------
(* Bounds of the model *)

\* plies followed along one game
MaxMoves == 5
\* snapshots on the undo stack in the game specifications
MaxHist == 5
\* AI worker threads spawned along one behaviour
MaxWorkers == 1
\* plies followed along one game against the computer, where every reply of the
\* worker branches over all its moves
MaxAiPlies == 2
\* snapshots on the undo stack in the game against the computer
MaxAiHist == 1

---------------------------------------------------------------------------
(* piece.rs: value types *)

BOARD_SIZE == 8

None == <<>>
Some(v) == <<v>>
IsSome(o) == o # <<>>
Unwrap(o) == o[1]

White == "White"
Black == "Black"

opposite(c) == IF c = White THEN Black ELSE White

NewPiece(piece_type, color) == [piece_type |-> piece_type, color |-> color]

NewPosition(x, y) == [x |-> x, y |-> y]

apply_delta(self, dx, dy) ==
    LET new_x == self.x + dx
        new_y == self.y + dy
    IN  IF new_x >= 0 /\ new_x < BOARD_SIZE /\ new_y >= 0 /\ new_y < BOARD_SIZE
        THEN Some(NewPosition(new_x, new_y))
        ELSE None

---------------------------------------------------------------------------
(* piece.rs: move generation.  `board` is the 8x8 grid, board[y][x].       *)

\* board.get(pos.y).and_then(row.get(pos.x)): None outside the grid
SquareAt(board, pos) ==
    IF pos.y \in DOMAIN board /\ pos.x \in DOMAIN board[pos.y]
    THEN Some(board[pos.y][pos.x])
    ELSE None

is_empty_square(pos, board) ==
    LET sq == SquareAt(board, pos)
    IN  IF IsSome(sq) THEN ~IsSome(Unwrap(sq)) ELSE FALSE

\* the capture test that accepts a piece of any color
can_capture_any(pos, board, color) ==
    LET sq == SquareAt(board, pos)
    IN  IsSome(sq) /\ IsSome(Unwrap(sq))

can_capture_at(pos, board, color) ==
    LET sq == SquareAt(board, pos)
    IN  IF IsSome(sq) /\ IsSome(Unwrap(sq))
        THEN Unwrap(Unwrap(sq)).color # color
        ELSE FALSE

RECURSIVE add_moves(_, _, _, _, _, _)
add_moves(moves, position, board, color, positions, only_empty) ==
    IF moves = <<>> THEN positions
    ELSE
        LET d == Head(moves)
            np == apply_delta(position, d[1], d[2])
            admit ==
                IF ~IsSome(np) THEN FALSE
                ELSE IF only_empty THEN is_empty_square(Unwrap(np), board)
                ELSE is_empty_square(Unwrap(np), board)
                     \/ can_capture_at(Unwrap(np), board, color)
        IN  add_moves(Tail(moves), position, board, color,
                      IF admit THEN Append(positions, Unwrap(np)) ELSE positions,
                      only_empty)

\* the ray that runs on behind a piece it can capture
RECURSIVE ray_passes_capture(_, _, _, _, _, _, _)
ray_passes_capture(dx, dy, step, position, board, color, positions) ==
    LET new_x == position.x + dx * step
        new_y == position.y + dy * step
        new_pos == NewPosition(new_x, new_y)
        sq == SquareAt(board, new_pos)
    IN  IF new_x < 0 \/ new_x >= BOARD_SIZE \/ new_y < 0 \/ new_y >= BOARD_SIZE
        THEN positions
        ELSE IF ~IsSome(sq) THEN positions
        ELSE IF IsSome(Unwrap(sq)) /\ Unwrap(Unwrap(sq)).color = color
        THEN positions
        ELSE ray_passes_capture(dx, dy, step + 1, position, board, color,
                                Append(positions, new_pos))

\* the inner loop of add_line_moves: one ray, from `step` on
RECURSIVE LineRay(_, _, _, _, _, _, _)
LineRay(dx, dy, step, position, board, color, positions) ==
    LET new_x == position.x + dx * step
        new_y == position.y + dy * step
        new_pos == NewPosition(new_x, new_y)
        sq == SquareAt(board, new_pos)
    IN  IF new_x < 0 \/ new_x >= BOARD_SIZE \/ new_y < 0 \/ new_y >= BOARD_SIZE
        THEN positions
        ELSE IF ~IsSome(sq) THEN positions
        ELSE IF IsSome(Unwrap(sq))
             THEN IF Unwrap(Unwrap(sq)).color = color
                  THEN positions
                  ELSE Append(positions, new_pos)
             ELSE LineRay(dx, dy, step + 1, position, board, color,
                          Append(positions, new_pos))

RECURSIVE add_line_moves(_, _, _, _, _)
add_line_moves(directions, position, board, color, positions) ==
    IF directions = <<>> THEN positions
    ELSE add_line_moves(Tail(directions), position, board, color,
            LineRay(Head(directions)[1], Head(directions)[2], 1,
                    position, board, color, positions))

knight_moves ==
    << <<2, 1>>, <<2, -1>>, <<-2, 1>>, <<-2, -1>>,
       <<1, 2>>, <<1, -2>>, <<-1, 2>>, <<-1, -2>> >>

king_moves ==
    << <<1, 1>>, <<1, 0>>, <<1, -1>>, <<0, 1>>,
       <<0, -1>>, <<-1, 1>>, <<-1, 0>>, <<-1, -1>> >>

rook_directions == << <<0, 1>>, <<1, 0>>, <<0, -1>>, <<-1, 0>> >>

bishop_directions == << <<1, 1>>, <<1, -1>>, <<-1, -1>>, <<-1, 1>> >>

queen_directions ==
    << <<1, 1>>, <<1, 0>>, <<1, -1>>, <<0, 1>>,
       <<0, -1>>, <<-1, 1>>, <<-1, 0>>, <<-1, -1>> >>

\* the pawn whose double step looks only at the square it lands on
pawn_jumps_over(piece, position, board) ==
    LET direction == IF piece.color = White THEN -1 ELSE 1
        start_row == IF piece.color = White THEN 6 ELSE 1
        new_pos == apply_delta(position, 0, direction)
        double_pos == apply_delta(position, 0, 2 * direction)
        single == IF IsSome(new_pos) /\ is_empty_square(Unwrap(new_pos), board)
                  THEN <<Unwrap(new_pos)>> ELSE <<>>
        double == IF position.y = start_row /\ IsSome(double_pos)
                     /\ is_empty_square(Unwrap(double_pos), board)
                  THEN <<Unwrap(double_pos)>> ELSE <<>>
        capture(dx) ==
            LET capture_pos == apply_delta(position, dx, direction)
            IN  IF IsSome(capture_pos)
                   /\ can_capture_at(Unwrap(capture_pos), board, piece.color)
                THEN <<Unwrap(capture_pos)>>
                ELSE <<>>
    IN  single \o double \o capture(-1) \o capture(1)

\* the Pawn arm of calculate_moves
pawn_moves(piece, position, board) ==
    LET direction == IF piece.color = White THEN -1 ELSE 1
        start_row == IF piece.color = White THEN 6 ELSE 1
        new_pos == apply_delta(position, 0, direction)
        double_pos == apply_delta(position, 0, 2 * direction)
        forward ==
            IF IsSome(new_pos) /\ is_empty_square(Unwrap(new_pos), board)
            THEN IF position.y = start_row /\ IsSome(double_pos)
                    /\ is_empty_square(Unwrap(double_pos), board)
                 THEN <<Unwrap(new_pos), Unwrap(double_pos)>>
                 ELSE <<Unwrap(new_pos)>>
            ELSE <<>>
        capture(dx) ==
            LET capture_pos == apply_delta(position, dx, direction)
            IN  IF IsSome(capture_pos)
                   /\ can_capture_at(Unwrap(capture_pos), board, piece.color)
                THEN <<Unwrap(capture_pos)>>
                ELSE <<>>
    IN  forward \o capture(-1) \o capture(1)

calculate_moves(piece, position, board) ==
    CASE piece.piece_type = "Knight" ->
            add_moves(knight_moves, position, board, piece.color, <<>>, FALSE)
      [] piece.piece_type = "Pawn" -> pawn_moves(piece, position, board)
      [] piece.piece_type = "Rook" ->
            add_line_moves(rook_directions, position, board, piece.color, <<>>)
      [] piece.piece_type = "Bishop" ->
            add_line_moves(bishop_directions, position, board, piece.color, <<>>)
      [] piece.piece_type = "Queen" ->
            add_line_moves(queen_directions, position, board, piece.color, <<>>)
      [] piece.piece_type = "King" ->
            add_moves(king_moves, position, board, piece.color, <<>>, FALSE)

\* Piece::get_valid_moves(pos, board): the board's entry into move generation
get_valid_moves(piece, pos, board) == calculate_moves(piece, pos, board.board)

\* <PieceType as Display>::to_string: the variant's name
PieceTypeToString(piece_type) == piece_type

---------------------------------------------------------------------------
(* board.rs: ChessBoard *)

back_rank == <<"Rook", "Knight", "Bishop", "Queen", "King", "Bishop", "Knight", "Rook">>

ChessBoard_new ==
    [board |->
        [y \in 0..7 |-> [x \in 0..7 |->
            CASE y = 0 -> Some(NewPiece(back_rank[x + 1], Black))
              [] y = 1 -> Some(NewPiece("Pawn", Black))
              [] y = 6 -> Some(NewPiece("Pawn", White))
              [] y = 7 -> Some(NewPiece(back_rank[x + 1], White))
              [] OTHER -> None]],
     captured_pieces |-> <<>>]

get_piece(self, pos) ==
    IF pos.x >= 8 \/ pos.y >= 8 THEN None ELSE self.board[pos.y][pos.x]

get_captured_pieces(self) == self.captured_pieces

calculate_moves_for(self, pos) ==
    LET piece == get_piece(self, pos)
    IN  IF IsSome(piece) THEN get_valid_moves(Unwrap(piece), pos, self) ELSE <<>>

\* the relocation that takes the piece off the grid without recording it
move_forgets_capture(self, from, to) ==
    IF from.x >= 8 \/ from.y >= 8 \/ to.x >= 8 \/ to.y >= 8
    THEN [board |-> self, result |-> "Invalid position"]
    ELSE IF ~IsSome(self.board[from.y][from.x])
    THEN [board |-> self, result |-> "No piece at source position"]
    ELSE
        LET placed == [self.board EXCEPT ![to.y][to.x] = self.board[from.y][from.x]]
            grid == [placed EXCEPT ![from.y][from.x] = None]
        IN  [board |-> [board |-> grid, captured_pieces |-> self.captured_pieces],
             result |-> "Ok"]

ChessBoard_move_piece(self, from, to) ==
    IF from.x >= 8 \/ from.y >= 8 \/ to.x >= 8 \/ to.y >= 8
    THEN [board |-> self, result |-> "Invalid position"]
    ELSE IF ~IsSome(self.board[from.y][from.x])
    THEN [board |-> self, result |-> "No piece at source position"]
    ELSE
        LET piece == self.board[from.y][from.x]
            target == self.board[to.y][to.x]
            captured == IF IsSome(target)
                        THEN Append(self.captured_pieces, Unwrap(target))
                        ELSE self.captured_pieces
            placed == [self.board EXCEPT ![to.y][to.x] = piece]
            grid == [placed EXCEPT ![from.y][from.x] = None]
        IN  [board |-> [board |-> grid, captured_pieces |-> captured],
             result |-> "Ok"]

\* Vec::contains
SeqContains(s, e) == \E i \in 1..Len(s) : s[i] = e

\* the check test that reports check when the color has no king
check_when_kingless(self, color) ==
    \/ \A y \in 0..7, x \in 0..7 :
          ~(self.board[y][x] = Some(NewPiece("King", color)))
    \/ \E ky \in 0..7, kx \in 0..7 :
          /\ self.board[ky][kx] = Some(NewPiece("King", color))
          /\ \E y \in 0..7, x \in 0..7 :
                /\ IsSome(self.board[y][x])
                /\ Unwrap(self.board[y][x]).color # color
                /\ SeqContains(get_valid_moves(Unwrap(self.board[y][x]),
                                               NewPosition(x, y), self),
                               NewPosition(kx, ky))

is_king_in_check(self, color) ==
    LET kings == {p \in (0..7) \X (0..7) :
                    /\ IsSome(self.board[p[1]][p[2]])
                    /\ Unwrap(self.board[p[1]][p[2]]).piece_type = "King"
                    /\ Unwrap(self.board[p[1]][p[2]]).color = color}
    IN  IF kings = {} THEN FALSE
        ELSE
            LET k == CHOOSE p \in kings :
                        \A q \in kings : p[1] * 8 + p[2] <= q[1] * 8 + q[2]
                king_pos == NewPosition(k[2], k[1])
            IN  \E y \in 0..7, x \in 0..7 :
                    /\ IsSome(self.board[y][x])
                    /\ Unwrap(self.board[y][x]).color # color
                    /\ SeqContains(get_valid_moves(Unwrap(self.board[y][x]),
                                                   NewPosition(x, y), self),
                                   king_pos)

---------------------------------------------------------------------------
(* state.rs: GameConfig and GameState *)

GameConfig_default ==
    [mode |-> "LOCAL", difficulty |-> None, player_color |-> None, game_id |-> None]

GameState_new ==
    [board |-> ChessBoard_new,
     current_player |-> White,
     selected_square |-> None,
     possible_moves |-> <<>>,
     game_over |-> FALSE,
     winner |-> None,
     is_check |-> FALSE,
     config |-> GameConfig_default,
     move_history |-> <<>>]

new_with_config(config) == [GameState_new EXCEPT !.config = config]

\* the selection that pins the square but keeps the earlier move list
select_keeps_moves(self, pos) ==
    LET piece == get_piece(self.board, pos)
    IN  IF IsSome(piece) /\ Unwrap(piece).color = self.current_player
        THEN [state |-> [self EXCEPT !.selected_square = Some(pos)],
              moves |-> calculate_moves_for(self.board, pos)]
        ELSE [state |-> [self EXCEPT !.selected_square = None,
                                     !.possible_moves = <<>>],
              moves |-> <<>>]

\* the selection that clears only when the square holds a piece
select_ignores_empty(self, pos) ==
    LET piece == get_piece(self.board, pos)
    IN  IF IsSome(piece) /\ Unwrap(piece).color = self.current_player
        THEN [state |-> [self EXCEPT !.selected_square = Some(pos),
                                     !.possible_moves = calculate_moves_for(self.board, pos)],
              moves |-> calculate_moves_for(self.board, pos)]
        ELSE IF IsSome(piece)
        THEN [state |-> [self EXCEPT !.selected_square = None,
                                     !.possible_moves = <<>>],
              moves |-> <<>>]
        ELSE [state |-> self, moves |-> <<>>]

\* returns the new state and the Vec<Position> handed back to the caller
select_square(self, pos) ==
    LET piece == get_piece(self.board, pos)
    IN  IF IsSome(piece) /\ Unwrap(piece).color = self.current_player
        THEN LET moves == calculate_moves_for(self.board, pos)
             IN  [state |-> [self EXCEPT !.selected_square = Some(pos),
                                         !.possible_moves = moves],
                  moves |-> moves]
        ELSE [state |-> [self EXCEPT !.selected_square = None,
                                     !.possible_moves = <<>>],
              moves |-> <<>>]

\* str::contains
StrContains(s, sub) ==
    \E i \in 1..(Len(s) - Len(sub) + 1) : SubSeq(s, i, i + Len(sub) - 1) = sub

files == <<"a", "b", "c", "d", "e", "f", "g", "h">>
ranks == <<"8", "7", "6", "5", "4", "3", "2", "1">>

\* the notation with the ranks counted from row 0 upwards
notation_ranks_from_top(piece_name, from, to, is_capture) ==
    LET piece_symbol ==
            IF StrContains(piece_name, "Pawn") THEN ""
            ELSE IF StrContains(piece_name, "Knight") THEN "N"
            ELSE SubSeq(piece_name, 1, 1)
        upward == <<"1", "2", "3", "4", "5", "6", "7", "8">>
    IN  piece_symbol \o files[from.x + 1] \o upward[from.y + 1]
            \o (IF is_capture THEN "x" ELSE "-")
            \o files[to.x + 1] \o upward[to.y + 1]

generate_move_notation(piece_name, from, to, is_capture) ==
    LET piece_symbol ==
            IF StrContains(piece_name, "Pawn") THEN ""
            ELSE IF StrContains(piece_name, "Knight") THEN "N"
            ELSE IF Len(piece_name) > 0 THEN SubSeq(piece_name, 1, 1) ELSE "P"
        from_file == files[from.x + 1]
        from_rank == ranks[from.y + 1]
        to_file == files[to.x + 1]
        to_rank == ranks[to.y + 1]
        capture_symbol == IF is_capture THEN "x" ELSE "-"
    IN  piece_symbol \o from_file \o from_rank \o capture_symbol \o to_file \o to_rank

\* the move with the winner read after the player has been switched
finish_winner_after_switch(self, moved, source_piece, from, to, is_capture) ==
    LET captured == get_captured_pieces(moved)
        king_taken ==
            /\ is_capture
            /\ Len(captured) > 0
            /\ captured[Len(captured)].piece_type = "King"
    IN  [self EXCEPT
            !.board = moved,
            !.move_history = Append(self.move_history,
                generate_move_notation(source_piece.piece_type, from, to, is_capture)),
            !.game_over = IF king_taken THEN TRUE ELSE self.game_over,
            !.winner = IF king_taken THEN Some(opposite(self.current_player))
                       ELSE self.winner,
            !.is_check = is_king_in_check(moved, opposite(self.current_player)),
            !.current_player = opposite(self.current_player),
            !.selected_square = None,
            !.possible_moves = <<>>]

\* the move that recomputes the check flag for the player who has just moved
finish_checks_mover(self, moved, source_piece, from, to, is_capture) ==
    LET captured == get_captured_pieces(moved)
        king_taken ==
            /\ is_capture
            /\ Len(captured) > 0
            /\ captured[Len(captured)].piece_type = "King"
    IN  [self EXCEPT
            !.board = moved,
            !.move_history = Append(self.move_history,
                generate_move_notation(source_piece.piece_type, from, to, is_capture)),
            !.game_over = IF king_taken THEN TRUE ELSE self.game_over,
            !.winner = IF king_taken THEN Some(self.current_player) ELSE self.winner,
            !.is_check = is_king_in_check(moved, self.current_player),
            !.current_player = opposite(self.current_player),
            !.selected_square = None,
            !.possible_moves = <<>>]

\* the move that leaves the selection and its move list in place
finish_keeps_selection(self, moved, source_piece, from, to, is_capture) ==
    LET captured == get_captured_pieces(moved)
        king_taken ==
            /\ is_capture
            /\ Len(captured) > 0
            /\ captured[Len(captured)].piece_type = "King"
    IN  [self EXCEPT
            !.board = moved,
            !.move_history = Append(self.move_history,
                generate_move_notation(source_piece.piece_type, from, to, is_capture)),
            !.game_over = IF king_taken THEN TRUE ELSE self.game_over,
            !.winner = IF king_taken THEN Some(self.current_player) ELSE self.winner,
            !.is_check = is_king_in_check(moved, opposite(self.current_player)),
            !.current_player = opposite(self.current_player)]

\* the part of move_piece_from after the board has been changed (lines 118-147)
FinishMove(self, moved, source_piece, from, to, is_capture) ==
    LET notation == generate_move_notation(
                        PieceTypeToString(source_piece.piece_type), from, to, is_capture)
        captured == get_captured_pieces(moved)
        king_taken ==
            /\ is_capture
            /\ Len(captured) > 0
            /\ StrContains(PieceTypeToString(captured[Len(captured)].piece_type), "King")
        opponent_color == IF self.current_player = White THEN Black ELSE White
    IN  [self EXCEPT
            !.board = moved,
            !.move_history = Append(self.move_history, notation),
            !.game_over = IF king_taken THEN TRUE ELSE self.game_over,
            !.winner = IF king_taken THEN Some(self.current_player) ELSE self.winner,
            !.is_check = is_king_in_check(moved, opponent_color),
            !.current_player = IF self.current_player = White THEN Black ELSE White,
            !.selected_square = None,
            !.possible_moves = <<>>]

\* the move that drops the selection before it validates
move_clears_selection_first(self, from, to) ==
    LET cleared == [self EXCEPT !.selected_square = None, !.possible_moves = <<>>]
        moves == calculate_moves_for(self.board, from)
        moved == ChessBoard_move_piece(self.board, from, to)
    IN  IF ~SeqContains(moves, to)
        THEN [state |-> cleared, result |-> "Invalid move"]
        ELSE [state |-> FinishMove(self, moved.board, Unwrap(get_piece(self.board, from)),
                                   from, to, IsSome(get_piece(self.board, to))),
              result |-> "Ok"]

\* returns the new state and the Result
move_piece_from(self, from, to) ==
    LET moves == calculate_moves_for(self.board, from)
        source_piece == get_piece(self.board, from)
        is_capture == IsSome(get_piece(self.board, to))
        moved == ChessBoard_move_piece(self.board, from, to)
    IN  IF ~SeqContains(moves, to)
        THEN [state |-> self, result |-> "Invalid move"]
        ELSE IF ~IsSome(source_piece)
        THEN [state |-> self, result |-> "No piece at source position"]
        ELSE IF moved.result # "Ok"
        THEN [state |-> [self EXCEPT !.board = moved.board], result |-> moved.result]
        ELSE [state |-> FinishMove(self, moved.board, Unwrap(source_piece),
                                   from, to, is_capture),
              result |-> "Ok"]

\* GameState::move_piece(to): the wrapper that moves the selected piece
GameState_move_piece(self, to) ==
    IF IsSome(self.selected_square)
    THEN move_piece_from(self, Unwrap(self.selected_square), to)
    ELSE [state |-> self, result |-> "No square selected"]

---------------------------------------------------------------------------
(* commands.rs: the command layer.                                         *)
(*                                                                         *)
(* Commands run one at a time on the command thread; `cmd` is Idle between *)
(* commands.  move_piece holds its locks in two separate blocks, so it is  *)
(* two steps (MovePieceSnapshot, MovePieceApply) and an AI worker, which   *)
(* needs only the GAME_STATE lock, can run between them.  The snapshot     *)
(* block does not read the command's arguments, so the model draws them in *)
(* the step that first uses them.  Every other command changes the shared  *)
(* values inside one critical section.  The commands as callers that may   *)
(* overlap, one step per lock(), follow further below (SpecLocks).         *)

\* the size the undo stack is trimmed to
HistoryLimit == 50

Idle == "idle"

NoMoves == <<>>

Called(op, by, from, to) == [op |-> op, by |-> by, from |-> from, to |-> to]

\* what an operation answered: the Result, the Vec<Position> and the i32
ReturnedAll(result, moves, score) == [result |-> result, moves |-> moves, score |-> score]

Returned(result, moves) == ReturnedAll(result, moves, 0)

\* the two statics of commands.rs
GAME_STATE == "GAME_STATE"
MOVE_HISTORY == "MOVE_HISTORY"

Mutexes == {GAME_STATE, MOVE_HISTORY}

\* the callers that may be inside a command at the same time
CommandThreads == {"t1", "t2"}

NoThread == "none"

\* no caller is inside a command and both mutexes are free
\* where a caller is: `pc` is Idle outside a command and names the lock the
\* caller acquires next inside one; previous_state is the local of undo_move
Position_of(pc, previous_state) == [pc |-> pc, previous_state |-> previous_state]

NoneLocked ==
    /\ at = [t \in CommandThreads |-> Position_of(Idle, None)]
    /\ holder = [m \in Mutexes |-> NoThread]

Init ==
    /\ NoneLocked
    /\ gs = GameState_new
    /\ history = <<>>
    /\ cmd = Idle
    /\ pending = 0
    /\ spawned = 0
    /\ call = Called("none", "none", NewPosition(0, 0), NewPosition(0, 0))
    /\ ret = Returned("Ok", NoMoves)
    /\ pre = GameState_new

\* the push that trims the newest snapshot
push_drops_newest(h, state) ==
    LET pushed == Append(h, state)
    IN  IF Len(pushed) > HistoryLimit THEN SubSeq(pushed, 1, Len(pushed) - 1) ELSE pushed

\* history.push(current_state.clone()); if history.len() > 50 { history.remove(0) }
PushSnapshot(h, state) ==
    LET pushed == Append(h, state)
    IN  IF Len(pushed) > HistoryLimit THEN Tail(pushed) ELSE pushed

\* commands::select_square(x, y)
SelectSquare(pos) ==
    /\ UNCHANGED <<at, holder>>
    /\ cmd = Idle
    /\ LET r == select_square(gs, pos)
       IN  /\ gs' = r.state
           /\ ret' = Returned("Ok", r.moves)
    /\ call' = Called("select_square", "command", pos, pos)
    /\ pre' = gs
    /\ UNCHANGED <<history, cmd, pending, spawned>>

\* commands::move_piece, lines 47-57: the snapshot block
MovePieceSnapshot ==
    /\ UNCHANGED <<at, holder>>
    /\ cmd = Idle
    /\ history' = PushSnapshot(history, gs)
    /\ cmd' = "move_piece"
    /\ call' = Called("snapshot", "command", NewPosition(0, 0), NewPosition(0, 0))
    /\ ret' = Returned("Ok", NoMoves)
    /\ pre' = gs
    /\ UNCHANGED <<gs, pending, spawned>>

\* Option<Color>::unwrap_or_default on config.player_color
PlayerColorOrDefault(config) ==
    IF IsSome(config.player_color) THEN Unwrap(config.player_color) ELSE White

should_make_ai_move(state) ==
    /\ state.config.mode = "AI"
    /\ state.current_player # PlayerColorOrDefault(state.config)

\* commands::move_piece, lines 59-103: the move block
MovePieceApply(from, to) ==
    /\ UNCHANGED <<at, holder>>
    /\ cmd = "move_piece"
    /\ LET r == move_piece_from(gs, from, to)
           spawn == IF r.result = "Ok" /\ should_make_ai_move(r.state) THEN 1 ELSE 0
       IN  /\ gs' = r.state
           /\ ret' = Returned(r.result, NoMoves)
           /\ pending' = pending + spawn
           /\ spawned' = spawned + spawn
    /\ call' = Called("move_piece_from", "command", from, to)
    /\ pre' = gs
    /\ cmd' = Idle
    /\ UNCHANGED history

\* the undo that takes the oldest snapshot
undo_takes_oldest ==
    /\ UNCHANGED <<at, holder>>
    /\ cmd = Idle
    /\ IF history = <<>>
       THEN /\ ret' = Returned("No moves to undo", NoMoves)
            /\ UNCHANGED <<gs, history>>
       ELSE /\ gs' = history[1]
            /\ history' = Tail(history)
            /\ ret' = Returned("Ok", NoMoves)
    /\ call' = Called("undo_move", "command", NewPosition(0, 0), NewPosition(0, 0))
    /\ pre' = gs
    /\ UNCHANGED <<cmd, pending, spawned>>

\* commands::undo_move
UndoMove ==
    /\ UNCHANGED <<at, holder>>
    /\ cmd = Idle
    /\ IF history = <<>>
       THEN /\ ret' = Returned("No moves to undo", NoMoves)
            /\ UNCHANGED <<gs, history>>
       ELSE /\ gs' = history[Len(history)]
            /\ history' = SubSeq(history, 1, Len(history) - 1)
            /\ ret' = Returned("Ok", NoMoves)
    /\ call' = Called("undo_move", "command", NewPosition(0, 0), NewPosition(0, 0))
    /\ pre' = gs
    /\ UNCHANGED <<cmd, pending, spawned>>

\* commands::reset_game
ResetGame ==
    /\ UNCHANGED <<at, holder>>
    /\ cmd = Idle
    /\ gs' = GameState_new
    /\ history' = <<>>
    /\ call' = Called("reset_game", "command", NewPosition(0, 0), NewPosition(0, 0))
    /\ ret' = Returned("Ok", NoMoves)
    /\ pre' = gs
    /\ UNCHANGED <<cmd, pending, spawned>>

\* commands::start_new_game(config)
StartNewGame(config) ==
    /\ UNCHANGED <<at, holder>>
    /\ cmd = Idle
    /\ gs' = new_with_config(config)
    /\ history' = <<>>
    /\ call' = Called("start_new_game", "command", NewPosition(0, 0), NewPosition(0, 0))
    /\ ret' = Returned("Ok", NoMoves)
    /\ pre' = gs
    /\ UNCHANGED <<cmd, pending, spawned>>

\* the (from, to) pairs the loops of make_random_move push for squares idx..63,
\* in row-major order
RECURSIVE all_moves_from(_, _)
all_moves_from(state, idx) ==
    IF idx > 63 THEN <<>>
    ELSE
        LET pos == NewPosition(idx % 8, idx \div 8)
            piece == get_piece(state.board, pos)
            moves == IF IsSome(piece) /\ Unwrap(piece).color = state.current_player
                     THEN calculate_moves_for(state.board, pos)
                     ELSE <<>>
        IN  [i \in 1..Len(moves) |-> <<pos, moves[i]>>] \o all_moves_from(state, idx + 1)

all_moves(state) == all_moves_from(state, 0)

\* commands::make_random_move, from the emptiness test on: `moves` is all_moves
\* as the loops built it and `pick` the index SliceRandom::choose draws
make_random_move(state, moves, pick) ==
    IF moves = <<>>
    THEN [state |-> state, result |-> "No valid moves for AI",
          from |-> NewPosition(0, 0), to |-> NewPosition(0, 0)]
    ELSE LET r == move_piece_from(state, moves[pick][1], moves[pick][2])
         IN  [state |-> r.state, result |-> r.result,
              from |-> moves[pick][1], to |-> moves[pick][2]]

make_medium_ai_move(state, moves, pick) == make_random_move(state, moves, pick)

make_hard_ai_move(state, moves, pick) == make_random_move(state, moves, pick)

make_ai_move(state, moves, pick) ==
    CASE state.config.difficulty = Some("MEDIUM") -> make_medium_ai_move(state, moves, pick)
      [] state.config.difficulty = Some("HARD") -> make_hard_ai_move(state, moves, pick)
      [] OTHER -> make_random_move(state, moves, pick)

\* the thread move_piece spawns (lines 78-94), after its sleep
AiWorker ==
    /\ UNCHANGED <<at, holder>>
    /\ pending > 0
    /\ LET moves == all_moves(gs)
       IN  \E pick \in 1..(IF moves = <<>> THEN 1 ELSE Len(moves)) :
              LET r == make_ai_move(gs, moves, pick)
              IN  /\ gs' = r.state
                  /\ ret' = Returned(r.result, NoMoves)
                  /\ call' = Called("move_piece_from", "worker", r.from, r.to)
    /\ pending' = pending - 1
    /\ pre' = gs
    /\ UNCHANGED <<history, cmd, spawned>>

---------------------------------------------------------------------------
(* Inputs of the bounded model *)

P(x, y) == NewPosition(x, y)

\* the (from, to) arguments the UI sends to move_piece: an opening that ends in
\* the capture of a king, and arguments the engine must refuse; each is refused
\* in the positions where its piece is elsewhere or its way is blocked
MoveInputs ==
    { <<P(4, 6), P(4, 4)>>,   \* e2-e4
      <<P(5, 1), P(5, 3)>>,   \* f7-f5
      <<P(4, 4), P(5, 3)>>,   \* e4xf5
      <<P(3, 7), P(7, 3)>>,   \* Qd1-h5
      <<P(7, 3), P(4, 0)>>,   \* Qh5xe8
      <<P(1, 0), P(2, 2)>>,   \* Nb8-c6
      <<P(4, 6), P(4, 8)>>,   \* destination off the board
      <<P(8, 0), P(0, 0)>> }  \* source off the board

SelectInputs == { P(4, 6), P(8, 8) }

ConfigInputs ==
    { [mode |-> "AI", difficulty |-> Some("EASY"), player_color |-> Some(White),
       game_id |-> None] }

\* the arguments of move_piece in the game against the computer
AiMoveInputs ==
    { <<P(4, 6), P(4, 4)>> }   \* e2-e4

\* the bounds as guards: the plies of one game, the workers spawned
WithinBounds(state, from, to, plies) ==
    LET r == move_piece_from(state, from, to)
    IN  r.result = "Ok" =>
            /\ Len(state.move_history) < plies
            /\ should_make_ai_move(r.state) => spawned < MaxWorkers

Select == \E pos \in SelectInputs : SelectSquare(pos)

Snapshot == Len(history) < MaxHist /\ MovePieceSnapshot

Apply ==
    \E m \in MoveInputs :
        WithinBounds(gs, m[1], m[2], MaxMoves) /\ MovePieceApply(m[1], m[2])

\* the game on one machine, two players (GameConfig::default)
Next ==
    \/ Select
    \/ Snapshot
    \/ Apply
    \/ UndoMove
    \/ ResetGame

Spec == Init /\ [][Next]_vars

NewGame == \E c \in ConfigInputs : StartNewGame(c)

AiSnapshot == Len(history) < MaxAiHist /\ MovePieceSnapshot

AiApply ==
    \E m \in AiMoveInputs :
        WithinBounds(gs, m[1], m[2], MaxAiPlies) /\ MovePieceApply(m[1], m[2])

\* the game against the computer
NextAI ==
    \/ NewGame
    \/ AiSnapshot
    \/ AiApply
    \/ UndoMove
    \/ AiWorker

SpecAI == Init /\ [][NextAI]_vars

\* the arguments of move_piece while the undo stack fills: two moves that each
\* succeed once and are refused from then on
CapMoveInputs ==
    { <<P(4, 6), P(4, 4)>>,   \* e2-e4
      <<P(5, 1), P(5, 3)>> }  \* f7-f5

CapSnapshot == MovePieceSnapshot

CapApply == \E m \in CapMoveInputs : MovePieceApply(m[1], m[2])

\* move_piece issued until the undo stack is full and beyond
NextCap ==
    \/ CapSnapshot
    \/ CapApply

SpecCap == Init /\ [][NextCap]_vars

\* plies followed and snapshots kept in the game in which blocked pieces are
\* selected
MaxSelMoves == 2
MaxSelHist == 2

\* the squares the UI selects there: the e2 pawn, the a1 rook and the e8 king
\* (both hemmed in by their own pieces), and a position off the board
BlockedSelectInputs == { P(4, 6), P(0, 7), P(4, 0), P(8, 8) }

SelSelect == \E pos \in BlockedSelectInputs : SelectSquare(pos)

SelSnapshot == Len(history) < MaxSelHist /\ MovePieceSnapshot

SelApply ==
    \E m \in CapMoveInputs :
        WithinBounds(gs, m[1], m[2], MaxSelMoves) /\ MovePieceApply(m[1], m[2])

\* selection, moves and undo in the local game
NextSelect ==
    \/ SelSelect
    \/ SelSnapshot
    \/ SelApply
    \/ UndoMove

SpecSelect == Init /\ [][NextSelect]_vars

---------------------------------------------------------------------------
(* ai.rs: the evaluator and the three strategies.  The functions of ai.rs  *)
(* that share a name with one of commands.rs carry the prefix ai_.         *)

I32_MAX == 2147483647

I32_MIN == -I32_MAX - 1

piece_values(piece_type) ==
    CASE piece_type = "Pawn" -> 100
      [] piece_type = "Knight" -> 300
      [] piece_type = "Bishop" -> 300
      [] piece_type = "Rook" -> 500
      [] piece_type = "Queen" -> 900
      [] piece_type = "King" -> 10000
      [] OTHER -> 0

pawn_position_bonus ==
    << <<0, 0, 0, 0, 0, 0, 0, 0>>,
       <<50, 50, 50, 50, 50, 50, 50, 50>>,
       <<10, 10, 20, 30, 30, 20, 10, 10>>,
       <<5, 5, 10, 25, 25, 10, 5, 5>>,
       <<0, 0, 0, 20, 20, 0, 0, 0>>,
       <<5, -5, -10, 0, 0, -10, -5, 5>>,
       <<5, 10, 10, -20, -20, 10, 10, 5>>,
       <<0, 0, 0, 0, 0, 0, 0, 0>> >>

knight_position_bonus ==
    << <<-50, -40, -30, -30, -30, -30, -40, -50>>,
       <<-40, -20, 0, 0, 0, 0, -20, -40>>,
       <<-30, 0, 10, 15, 15, 10, 0, -30>>,
       <<-30, 5, 15, 20, 20, 15, 5, -30>>,
       <<-30, 0, 15, 20, 20, 15, 0, -30>>,
       <<-30, 5, 10, 15, 15, 10, 5, -30>>,
       <<-40, -20, 0, 5, 5, 0, -20, -40>>,
       <<-50, -40, -30, -30, -30, -30, -40, -50>> >>

bishop_position_bonus ==
    << <<-20, -10, -10, -10, -10, -10, -10, -20>>,
       <<-10, 0, 0, 0, 0, 0, 0, -10>>,
       <<-10, 0, 10, 10, 10, 10, 0, -10>>,
       <<-10, 5, 5, 10, 10, 5, 5, -10>>,
       <<-10, 0, 5, 10, 10, 5, 0, -10>>,
       <<-10, 10, 10, 10, 10, 10, 10, -10>>,
       <<-10, 5, 0, 0, 0, 0, 5, -10>>,
       <<-20, -10, -10, -10, -10, -10, -10, -20>> >>

\* the match on piece.piece_type inside the loops of evaluate_position
position_bonus(piece, x, y) ==
    LET row == IF piece.color = White THEN y ELSE 7 - y
    IN  CASE piece.piece_type = "Pawn" -> pawn_position_bonus[row + 1][x + 1]
          [] piece.piece_type = "Knight" -> knight_position_bonus[row + 1][x + 1]
          [] piece.piece_type = "Bishop" -> bishop_position_bonus[row + 1][x + 1]
          [] OTHER -> 0

\* the squares in the order `for y in 0..8 { for x in 0..8 {` visits them
RowMajor == [i \in 1..64 |-> NewPosition((i - 1) % 8, (i - 1) \div 8)]

\* the squares on which the loops find a piece, in the order they visit them
occupied_squares(state) ==
    LET Holds(pos) == IsSome(get_piece(state.board, pos))
    IN  SelectSeq(RowMajor, Holds)

\* the loops of evaluate_position over squares[i..], the squares that pass the
\* `if let Some(piece)`, from score on
RECURSIVE evaluate_from(_, _, _, _, _)
evaluate_from(state, color, squares, i, score) ==
    IF i > Len(squares) THEN score
    ELSE
        LET piece == Unwrap(get_piece(state.board, squares[i]))
            worth == piece_values(piece.piece_type)
                        + position_bonus(piece, squares[i].x, squares[i].y)
        IN  evaluate_from(state, color, squares, i + 1,
                IF piece.color = color THEN score + worth ELSE score - worth)

\* the evaluator that charges the check penalty to either perspective
evaluate_penalizes_both(state, color) ==
    LET score == evaluate_from(state, color, occupied_squares(state), 1, 0)
    IN  IF state.is_check THEN score - 50 ELSE score

evaluate_position(state, color) ==
    LET score == evaluate_from(state, color, occupied_squares(state), 1, 0)
    IN  IF state.is_check /\ state.current_player = color THEN score - 50 ELSE score

\* the enumeration that takes the moves of the pieces of both colors
RECURSIVE any_color_moves_from(_, _)
any_color_moves_from(state, idx) ==
    IF idx > 63 THEN <<>>
    ELSE
        LET pos == NewPosition(idx % 8, idx \div 8)
            moves == calculate_moves_for(state.board, pos)
        IN  [i \in 1..Len(moves) |-> <<pos, moves[i]>>]
                \o any_color_moves_from(state, idx + 1)

all_moves_any_color(state) == any_color_moves_from(state, 0)

\* the (from, to) pairs in the order the loops of ai.rs push them
ai_all_moves(state) == all_moves_from(state, 0)

NoMove == [from |-> NewPosition(0, 0), to |-> NewPosition(0, 0)]

\* ai.rs make_random_move, from the emptiness test on: `moves` is all_moves as
\* the loops built it and `pick` the index SliceRandom::choose draws
ai_make_random_move(state, moves, pick) ==
    IF moves = <<>>
    THEN [state |-> state, result |-> "No valid moves for AI",
          from |-> NoMove.from, to |-> NoMove.to]
    ELSE LET r == move_piece_from(state, moves[pick][1], moves[pick][2])
         IN  [state |-> r.state, result |-> r.result,
              from |-> moves[pick][1], to |-> moves[pick][2]]

\* capture_moves of make_medium_ai_move
capture_moves(state, moves) ==
    LET IsCapture(m) == IsSome(get_piece(state.board, m[2]))
    IN  SelectSeq(moves, IsCapture)

\* check_moves of make_medium_ai_move: the moves after which a clone of the
\* state has is_check set
check_moves(state, moves) ==
    LET GivesCheck(m) ==
            LET temp_state == move_piece_from(state, m[1], m[2])
            IN  temp_state.result = "Ok" /\ temp_state.state.is_check
    IN  SelectSeq(moves, GivesCheck)

\* the list make_medium_ai_move draws from (lines 199-211); each list is built
\* once and its value read
medium_bucket(state, moves) ==
    CHOOSE bucket \in
        { IF checks # <<>> THEN checks
          ELSE IF captures # <<>> THEN captures
          ELSE moves :
            checks \in {check_moves(state, moves)},
            captures \in {capture_moves(state, moves)} } : TRUE

\* the state left behind when the moves tried for the check test are made on
\* the state itself and taken back on the board only: their notation stays
RECURSIVE trials_unmade(_, _, _)
trials_unmade(state, moves, i) ==
    IF i > Len(moves) THEN state
    ELSE LET r == move_piece_from(state, moves[i][1], moves[i][2])
         IN  trials_unmade(IF r.result = "Ok"
                           THEN [state EXCEPT !.move_history = r.state.move_history]
                           ELSE state,
                           moves, i + 1)

\* the Medium strategy whose check test simulates on the live state
medium_searches_in_place(state, moves, bucket, pick) ==
    IF moves = <<>>
    THEN [state |-> state, result |-> "No valid moves for AI",
          from |-> NoMove.from, to |-> NoMove.to]
    ELSE LET r == move_piece_from(trials_unmade(state, moves, 1),
                                  bucket[pick][1], bucket[pick][2])
         IN  [state |-> r.state, result |-> r.result,
              from |-> bucket[pick][1], to |-> bucket[pick][2]]

\* ai.rs make_medium_ai_move: `moves` is all_moves, `bucket` the list drawn from
\* and `pick` the index drawn
ai_make_medium_ai_move(state, moves, bucket, pick) ==
    IF moves = <<>>
    THEN [state |-> state, result |-> "No valid moves for AI",
          from |-> NoMove.from, to |-> NoMove.to]
    ELSE LET r == move_piece_from(state, bucket[pick][1], bucket[pick][2])
         IN  [state |-> r.state, result |-> r.result,
              from |-> bucket[pick][1], to |-> bucket[pick][2]]

Max(a, b) == IF a >= b THEN a ELSE b

Min(a, b) == IF a <= b THEN a ELSE b

RECURSIVE minimax_node(_, _, _, _, _)
RECURSIVE minimax_moves(_, _, _, _, _, _, _)
RECURSIVE minimax_squares(_, _, _, _, _, _)

\* the reversed pruning test: beta >= alpha
update_reversed_test(maximizing_player, alpha, beta, best_score, score) ==
    LET new_best == IF maximizing_player THEN Max(best_score, score)
                    ELSE Min(best_score, score)
        new_alpha == IF maximizing_player THEN Max(alpha, new_best) ELSE alpha
        new_beta == IF maximizing_player THEN beta ELSE Min(beta, new_best)
    IN  [best_score |-> new_best, alpha |-> new_alpha, beta |-> new_beta,
         break |-> new_beta >= new_alpha]

\* one pass of the innermost loop of minimax once the move has been tried and
\* the position after it scored: best_score, alpha and beta as the pass leaves
\* them, and whether the loop breaks
minimax_update(maximizing_player, alpha, beta, best_score, score) ==
    LET new_best == IF maximizing_player THEN Max(best_score, score)
                    ELSE Min(best_score, score)
        new_alpha == IF maximizing_player THEN Max(alpha, new_best) ELSE alpha
        new_beta == IF maximizing_player THEN beta ELSE Min(beta, new_best)
    IN  [best_score |-> new_best, alpha |-> new_alpha, beta |-> new_beta,
         break |-> new_beta <= new_alpha]

\* The locals of one call of minimax: best_score, alpha and beta, and, for
\* observation, `scored`: the child moves the call has simulated and scored so
\* far, each with whether beta <= alpha held once it was scored, and `nodes`:
\* the calls of minimax made so far by this call and the calls below it, itself
\* included.
NodeLocals(best_score, alpha, beta, scored, nodes) ==
    [best_score |-> best_score, alpha |-> alpha, beta |-> beta,
     scored |-> scored, nodes |-> nodes]

\* the innermost loop of minimax over moves[i..] of the piece on pos; answers the
\* locals as the loop leaves them (by exhaustion or by break).  `let` values are
\* bound through singleton sets, so each is computed once.
minimax_moves(state, depth, maximizing_player, pos, moves, i, locals) ==
    IF i > Len(moves) THEN locals
    ELSE
        CHOOSE out \in
            { IF temp_state.result # "Ok"
              THEN minimax_moves(state, depth, maximizing_player, pos, moves, i + 1, locals)
              ELSE CHOOSE scored \in
                    { CHOOSE updated \in
                        { IF u.break
                          THEN NodeLocals(u.best_score, u.alpha, u.beta,
                                   Append(locals.scored,
                                          [from |-> pos, to |-> moves[i], cut |-> TRUE]),
                                   locals.nodes + child.nodes)
                          ELSE minimax_moves(state, depth, maximizing_player, pos, moves,
                                   i + 1,
                                   NodeLocals(u.best_score, u.alpha, u.beta,
                                       Append(locals.scored,
                                              [from |-> pos, to |-> moves[i], cut |-> FALSE]),
                                       locals.nodes + child.nodes)) :
                            u \in { minimax_update(maximizing_player, locals.alpha,
                                        locals.beta, locals.best_score, child.score) } } : TRUE :
                        child \in { minimax_node(temp_state.state, depth - 1,
                                        ~maximizing_player, locals.alpha, locals.beta) } } : TRUE :
                temp_state \in {move_piece_from(state, pos, moves[i])} } : TRUE

\* the squares on which the loops find a piece of the side to move
own_squares(state) ==
    LET Own(pos) ==
            /\ IsSome(get_piece(state.board, pos))
            /\ Unwrap(get_piece(state.board, pos)).color = state.current_player
    IN  SelectSeq(RowMajor, Own)

\* the two outer loops of minimax over squares[i..], the squares that pass the
\* two tests on the piece; the break of the innermost loop leaves them running
minimax_squares(state, depth, maximizing_player, squares, i, locals) ==
    IF i > Len(squares) THEN locals
    ELSE
        CHOOSE out \in
            { minimax_squares(state, depth, maximizing_player, squares, i + 1, r) :
                r \in { minimax_moves(state, depth, maximizing_player, squares[i],
                            calculate_moves_for(state.board, squares[i]), 1, locals) } } : TRUE

\* one call of minimax with what it observed: the value returned, the child
\* moves scored by the call itself and the number of calls made
minimax_node(state, depth, maximizing_player, alpha, beta) ==
    IF depth = 0 \/ state.game_over
    THEN [score |-> evaluate_position(state, state.current_player),
          scored |-> <<>>, nodes |-> 1]
    ELSE
        CHOOSE out \in
            { [score |-> r.best_score, scored |-> r.scored, nodes |-> r.nodes] :
                r \in { minimax_squares(state, depth, maximizing_player,
                            own_squares(state), 1,
                            NodeLocals(IF maximizing_player THEN I32_MIN ELSE I32_MAX,
                                       alpha, beta, <<>>, 1)) } } : TRUE

minimax(state, depth, maximizing_player, alpha, beta) ==
    minimax_node(state, depth, maximizing_player, alpha, beta).score

\* the loops of find_best_move over moves[i..], all_moves in push order
RECURSIVE best_move_from(_, _, _, _, _, _)
best_move_from(state, depth, moves, i, best_score, best_move) ==
    IF i > Len(moves) THEN best_move
    ELSE
        CHOOSE out \in
            { IF temp_state.result # "Ok"
              THEN best_move_from(state, depth, moves, i + 1, best_score, best_move)
              ELSE CHOOSE inner \in
                    { IF score > best_score
                      THEN best_move_from(state, depth, moves, i + 1, score,
                                Some([from |-> moves[i][1], to |-> moves[i][2]]))
                      ELSE best_move_from(state, depth, moves, i + 1,
                                          best_score, best_move) :
                        score \in { minimax(temp_state.state, depth - 1, FALSE,
                                            I32_MIN, I32_MAX) } } : TRUE :
                temp_state \in {move_piece_from(state, moves[i][1], moves[i][2])} } : TRUE

\* answers the Result: "Ok" with the move, or the error
find_best_move(state, depth) ==
    CHOOSE found \in
        { IF IsSome(best_move)
          THEN [result |-> "Ok", from |-> Unwrap(best_move).from,
                to |-> Unwrap(best_move).to]
          ELSE [result |-> "No valid moves found", from |-> NoMove.from,
                to |-> NoMove.to] :
            best_move \in { best_move_from(state, depth, ai_all_moves(state), 1,
                                           I32_MIN, None) } } : TRUE

\* the depth make_hard_ai_move searches to
HardDepth == 3

ai_make_hard_ai_move(state) ==
    CHOOSE out \in
        { IF found.result # "Ok"
          THEN [state |-> state, result |-> found.result,
                from |-> NoMove.from, to |-> NoMove.to]
          ELSE [state |-> move_piece_from(state, found.from, found.to).state,
                result |-> move_piece_from(state, found.from, found.to).result,
                from |-> found.from, to |-> found.to] :
            found \in {find_best_move(state, HardDepth)} } : TRUE

---------------------------------------------------------------------------
(* Move generation and check detection on chosen boards.                   *)
(*                                                                         *)
(* ChessBoard's fields are public, so any grid is a ChessBoard value.  The *)
(* boards below hold one piece under study and a few pieces around it, on  *)
(* squares reachable in play: at most one king of each color, no pawn      *)
(* behind its own starting rank.                                           *)

PieceTypes == {"Pawn", "Rook", "Knight", "Bishop", "Queen", "King"}

Colors == {White, Black}

\* the squares the piece under study stands on: mid-board and the two pawn
\* starting ranks
SubjectSquares == { P(3, 4), P(4, 6), P(4, 1) }

\* where the surrounding pieces stand, relative to the piece under study: the
\* pawn's forward and diagonal squares for both colors, the first squares of
\* rays in three directions, and knight offsets
BlockerOffsets ==
    { <<0, -1>>, <<0, -2>>, <<0, 1>>, <<0, 2>>,
      <<1, -1>>, <<-1, -1>>, <<1, 1>>, <<-1, 1>>,
      <<1, 0>>, <<2, 0>>, <<2, -2>>, <<1, -2>> }

BlockerKinds ==
    { NewPiece("King", White), NewPiece("King", Black),
      NewPiece("Pawn", White), NewPiece("Pawn", Black) }

\* pieces placed around the piece under study
MaxBlockers == 2

OnBoard(x, y) == x >= 0 /\ x < 8 /\ y >= 0 /\ y < 8

BlockerSquares(s) ==
    { P(s.x + o[1], s.y + o[2]) : o \in {q \in BlockerOffsets :
                                            OnBoard(s.x + q[1], s.y + q[2])} }

\* the placements of at most n surrounding pieces on the given squares:
\* functions from the occupied squares to the pieces on them
PlacementsOn(subject, squares_of, n) ==
    LET squares == {S \in SUBSET squares_of : Cardinality(S) <= n}
        all == UNION {[S -> BlockerKinds] : S \in squares}
        kings(pl, c) ==
            Cardinality({q \in DOMAIN pl : pl[q] = NewPiece("King", c)})
                + (IF subject = NewPiece("King", c) THEN 1 ELSE 0)
    IN  {pl \in all :
            /\ \A c \in Colors : kings(pl, c) <= 1
            /\ \A q \in DOMAIN pl :
                  /\ pl[q] = NewPiece("Pawn", White) => q.y # 7
                  /\ pl[q] = NewPiece("Pawn", Black) => q.y # 0}

Placements(subject, s) == PlacementsOn(subject, BlockerSquares(s), MaxBlockers)

TestGrid(subject, s, pl) ==
    [y \in 0..7 |-> [x \in 0..7 |->
        IF P(x, y) = s THEN Some(subject)
        ELSE IF P(x, y) \in DOMAIN pl THEN Some(pl[P(x, y)])
        ELSE None]]

TestBoard(subject, s, pl) ==
    [board |-> TestGrid(subject, s, pl), captured_pieces |-> <<>>]

\* the squares calculate_moves_for is asked about: those of the piece under
\* study, the square of a knight of the fresh board, and positions off the board
GenInputs == SubjectSquares \cup { P(1, 0), P(8, 3), P(3, 8) }

BoolString(b) == IF b THEN "true" ELSE "false"

InitGen ==
    /\ NoneLocked
    /\ \/ gs = GameState_new
       \/ \E t \in PieceTypes, c \in Colors, s \in SubjectSquares :
             \E pl \in Placements(NewPiece(t, c), s) :
                gs = [GameState_new EXCEPT !.board = TestBoard(NewPiece(t, c), s, pl)]
    /\ history = <<>>
    /\ cmd = Idle
    /\ pending = 0
    /\ spawned = 0
    /\ call = Called("none", "none", NewPosition(0, 0), NewPosition(0, 0))
    /\ ret = Returned("Ok", NoMoves)
    /\ pre = gs

\* ChessBoard::calculate_moves_for(pos) on the board; each board is asked one
\* question, the functions being pure
CalculateMovesFor(pos) ==
    /\ UNCHANGED <<at, holder>>
    /\ call.op = "none"
    /\ call' = Called("calculate_moves_for", "caller", pos, pos)
    /\ ret' = Returned("Ok", calculate_moves_for(gs.board, pos))
    /\ pre' = gs
    /\ UNCHANGED <<gs, history, cmd, pending, spawned>>

\* ChessBoard::is_king_in_check(color) on the board; `by` carries the color asked
\* about and `result` the boolean returned
IsKingInCheck(color) ==
    /\ UNCHANGED <<at, holder>>
    /\ call.op = "none"
    /\ call' = Called("is_king_in_check", color, NewPosition(0, 0), NewPosition(0, 0))
    /\ ret' = Returned(BoolString(is_king_in_check(gs.board, color)), NoMoves)
    /\ pre' = gs
    /\ UNCHANGED <<gs, history, cmd, pending, spawned>>

GenMoves == \E pos \in GenInputs : CalculateMovesFor(pos)

GenCheck == \E color \in Colors : IsKingInCheck(color)

NextGen ==
    \/ GenMoves
    \/ GenCheck

SpecGen == InitGen /\ [][NextGen]_vars

---------------------------------------------------------------------------
(* The strategies and the evaluator on chosen states: one piece under      *)
(* study on a mid-board square, pieces around it, either color to move,    *)
(* is_check as a move leading there would have set it, and one automated   *)
(* turn outstanding in a game against the computer.                        *)

AiSubjectSquare == P(3, 4)

AiOffsets == { <<0, 1>>, <<0, -1>>, <<1, 1>>, <<1, 2>> }

AiSquares == { P(AiSubjectSquare.x + o[1], AiSubjectSquare.y + o[2]) : o \in AiOffsets }

\* pieces placed around the piece under study in the states the strategies run on
MaxAiBlockers == 1

AiState(board, player, difficulty) ==
    [GameState_new EXCEPT
        !.board = board,
        !.current_player = player,
        !.is_check = is_king_in_check(board, player),
        !.config = [mode |-> "AI", difficulty |-> Some(difficulty),
                    player_color |-> Some(opposite(player)), game_id |-> None]]

\* the states the strategies are run on, the surrounding pieces on at most n of
\* the given squares
InitAmong(squares, n, difficulty) ==
    /\ NoneLocked
    /\ \E t \in PieceTypes, c \in Colors, player \in Colors :
          \E pl \in PlacementsOn(NewPiece(t, c), squares, n) :
             gs = AiState(TestBoard(NewPiece(t, c), AiSubjectSquare, pl), player, difficulty)
    /\ history = <<>>
    /\ cmd = Idle
    /\ pending = 1
    /\ spawned = 1
    /\ call = Called("none", "none", NewPosition(0, 0), NewPosition(0, 0))
    /\ ret = Returned("Ok", NoMoves)
    /\ pre = gs

InitOn(difficulty) == InitAmong(AiSquares, MaxAiBlockers, difficulty)

InitAiLib == InitOn("EASY")

InitStrategies == InitOn("MEDIUM")

\* one operation is applied to each state
Fresh == call.op = "none"

AiRan(op, r) ==
    /\ UNCHANGED <<at, holder>>
    /\ gs' = r.state
    /\ call' = Called(op, "ai", r.from, r.to)
    /\ ret' = Returned(r.result, NoMoves)
    /\ pre' = gs
    /\ UNCHANGED <<history, cmd, pending, spawned>>

\* ai.rs make_random_move
AiEasy ==
    /\ Fresh
    /\ \E moves \in {ai_all_moves(gs)} :
          \E pick \in 1..Max(1, Len(moves)) :
             \E r \in {ai_make_random_move(gs, moves, pick)} :
                AiRan("make_random_move", r)

\* ai.rs make_medium_ai_move
AiMedium ==
    /\ Fresh
    /\ \E moves \in {ai_all_moves(gs)} :
          \E bucket \in {medium_bucket(gs, moves)} :
             \E pick \in 1..Max(1, Len(bucket)) :
                \E r \in {ai_make_medium_ai_move(gs, moves, bucket, pick)} :
                   AiRan("make_medium_ai_move", r)

\* moves of the side to move in the states the three-ply search is run on
MaxHardMoves == 8

\* ai.rs make_hard_ai_move
AiHard ==
    /\ Fresh
    /\ Len(ai_all_moves(gs)) <= MaxHardMoves
    /\ \E r \in {ai_make_hard_ai_move(gs)} : AiRan("make_hard_ai_move", r)

\* ai.rs find_best_move(state, 1)
AiBestMove ==
    /\ UNCHANGED <<at, holder>>
    /\ Fresh
    /\ \E found \in {find_best_move(gs, 1)} :
          /\ call' = Called("find_best_move", "ai", found.from, found.to)
          /\ ret' = Returned(found.result, NoMoves)
    /\ pre' = gs
    /\ UNCHANGED <<gs, history, cmd, pending, spawned>>

\* ai.rs evaluate_position(state, color); `by` carries the color
AiEvaluate ==
    /\ UNCHANGED <<at, holder>>
    /\ Fresh
    /\ \E color \in Colors :
          /\ call' = Called("evaluate_position", color, NewPosition(0, 0), NewPosition(0, 0))
          /\ ret' = ReturnedAll("Ok", NoMoves, evaluate_position(gs, color))
    /\ pre' = gs
    /\ UNCHANGED <<gs, history, cmd, pending, spawned>>

\* the automated turn of the command layer
AiTurn == Fresh /\ AiWorker

\* the evaluator, the Easy strategy and the automated turn at difficulty Easy
NextAiLib ==
    \/ AiEasy
    \/ AiEvaluate
    \/ AiTurn

SpecAiLib == InitAiLib /\ [][NextAiLib]_vars

\* the strategies of ai.rs, its one-ply search, and the automated turn at
\* difficulty Medium
NextStrategies ==
    \/ AiEasy
    \/ AiMedium
    \/ AiHard
    \/ AiBestMove
    \/ AiTurn

SpecStrategies == InitStrategies /\ [][NextStrategies]_vars

---------------------------------------------------------------------------
(* The search of ai.rs on the same states: minimax called as its callers   *)
(* call it, with the full window and with windows an enclosing node has    *)
(* narrowed, and find_best_move at the depth make_hard_ai_move uses.       *)

\* where the surrounding pieces stand in the states the search is run on
SearchSquares == { P(3, 5), P(3, 3), P(4, 5) }

\* pieces placed around the piece under study in those states
MaxSearchBlockers == 1

InitSearch == InitAmong(SearchSquares, MaxSearchBlockers, "HARD")

\* the remaining depths minimax is called with below find_best_move(state, 3)
SearchDepths == 0..(HardDepth - 1)

\* the (alpha, beta) minimax is entered with: the full window of find_best_move
\* and windows of the kind an enclosing node passes down
SearchWindows ==
    { <<I32_MIN, I32_MAX>>, <<-100, 100>>, <<0, I32_MAX>> }

\* moves of the side to move in the states minimax is run on
MaxSearchMoves == 8

CalledSearch(depth, maximizing_player, alpha, beta) ==
    [op |-> "minimax", by |-> "ai", from |-> NoMove.from, to |-> NoMove.to,
     depth |-> depth, maximizing_player |-> maximizing_player,
     alpha |-> alpha, beta |-> beta]

\* what minimax answered and what its call observed
ReturnedSearch(node) ==
    [result |-> "Ok", moves |-> NoMoves, score |-> node.score,
     scored |-> node.scored, nodes |-> node.nodes]

\* ai.rs minimax(state, depth, maximizing_player, alpha, beta)
AiMinimax ==
    /\ UNCHANGED <<at, holder>>
    /\ Fresh
    /\ Len(ai_all_moves(gs)) <= MaxSearchMoves
    /\ \E depth \in SearchDepths, maximizing_player \in BOOLEAN, w \in SearchWindows :
          \E node \in {minimax_node(gs, depth, maximizing_player, w[1], w[2])} :
             /\ call' = CalledSearch(depth, maximizing_player, w[1], w[2])
             /\ ret' = ReturnedSearch(node)
    /\ pre' = gs
    /\ UNCHANGED <<gs, history, cmd, pending, spawned>>

\* ai.rs find_best_move(state, 3)
AiFindBestMove ==
    /\ UNCHANGED <<at, holder>>
    /\ Fresh
    /\ Len(ai_all_moves(gs)) <= MaxSearchMoves
    /\ \E found \in {find_best_move(gs, HardDepth)} :
          /\ call' = Called("find_best_move", "ai", found.from, found.to)
          /\ ret' = Returned(found.result, NoMoves)
    /\ pre' = gs
    /\ UNCHANGED <<gs, history, cmd, pending, spawned>>

NextSearch ==
    \/ AiMinimax
    \/ AiFindBestMove

SpecSearch == InitSearch /\ [][NextSearch]_vars

---------------------------------------------------------------------------
(* The commands as concurrent callers of the two mutexes.                  *)
(*                                                                         *)
(* Each command is a plain function that synchronises through GAME_STATE   *)
(* and MOVE_HISTORY only, so the callers of CommandThreads may be inside   *)
(* commands at the same time.  A step is one lock() together with the code *)
(* up to the next lock() or the return; guards are released when they go   *)
(* out of scope, which never blocks.  A lock() on a held mutex is a step   *)
(* that is not enabled.  A poisoned mutex needs a panic while a guard is   *)
(* held, which none of the code run under a guard does.                    *)

MaxLockHist == 1

MaxLockPlies == 1

Free(m) == holder[m] = NoThread

Outside(t) == at[t].pc = Idle

\* lock() on m by t returns
Acquire(t, m) == [holder EXCEPT ![m] = t]

\* the guards of t go out of scope
ReleaseAll(t) == [m \in Mutexes |-> IF holder[m] = t THEN NoThread ELSE holder[m]]

Goes(t, pc, previous_state) == [at EXCEPT ![t] = Position_of(pc, previous_state)]

\* commands::get_game_state
LockedGetGameState(t) ==
    /\ Outside(t)
    /\ Free(GAME_STATE)
    /\ call' = Called("get_game_state", t, NewPosition(0, 0), NewPosition(0, 0))
    /\ ret' = Returned("Ok", NoMoves)
    /\ pre' = gs
    /\ UNCHANGED <<gs, history, cmd, pending, spawned, at, holder>>

\* commands::select_square
LockedSelectSquare(t, pos) ==
    /\ Outside(t)
    /\ Free(GAME_STATE)
    /\ LET r == select_square(gs, pos)
       IN  /\ gs' = r.state
           /\ ret' = Returned("Ok", r.moves)
    /\ call' = Called("select_square", t, pos, pos)
    /\ pre' = gs
    /\ UNCHANGED <<history, cmd, pending, spawned, at, holder>>

\* commands::move_piece, line 49
MovePieceLockState(t) ==
    /\ Outside(t)
    /\ Free(GAME_STATE)
    /\ holder' = Acquire(t, GAME_STATE)
    /\ at' = Goes(t, "move_piece:MOVE_HISTORY", None)
    /\ UNCHANGED <<gs, history, cmd, pending, spawned, call, ret, pre>>

\* commands::move_piece, lines 50-57
MovePieceLockHistory(t) ==
    /\ at[t].pc = "move_piece:MOVE_HISTORY"
    /\ Free(MOVE_HISTORY)
    /\ history' = PushSnapshot(history, gs)
    /\ holder' = ReleaseAll(t)
    /\ at' = Goes(t, "move_piece:GAME_STATE", None)
    /\ call' = Called("snapshot", t, NewPosition(0, 0), NewPosition(0, 0))
    /\ ret' = Returned("Ok", NoMoves)
    /\ pre' = gs
    /\ UNCHANGED <<gs, cmd, pending, spawned>>

\* commands::move_piece, lines 60-103
MovePieceLockAgain(t, from, to) ==
    /\ at[t].pc = "move_piece:GAME_STATE"
    /\ Free(GAME_STATE)
    /\ LET r == move_piece_from(gs, from, to)
           spawn == IF r.result = "Ok" /\ should_make_ai_move(r.state) THEN 1 ELSE 0
       IN  /\ gs' = r.state
           /\ ret' = Returned(r.result, NoMoves)
           /\ pending' = pending + spawn
           /\ spawned' = spawned + spawn
    /\ at' = Goes(t, Idle, None)
    /\ call' = Called("move_piece_from", t, from, to)
    /\ pre' = gs
    /\ UNCHANGED <<history, cmd, holder>>

\* commands::undo_move, lines 109-115
UndoLockHistory(t) ==
    /\ Outside(t)
    /\ Free(MOVE_HISTORY)
    /\ IF history = <<>>
       THEN /\ ret' = Returned("No moves to undo", NoMoves)
            /\ call' = Called("undo_move", t, NewPosition(0, 0), NewPosition(0, 0))
            /\ pre' = gs
            /\ UNCHANGED <<history, at, holder>>
       ELSE /\ history' = SubSeq(history, 1, Len(history) - 1)
            /\ holder' = Acquire(t, MOVE_HISTORY)
            /\ at' = Goes(t, "undo_move:GAME_STATE", Some(history[Len(history)]))
            /\ UNCHANGED <<call, ret, pre>>
    /\ UNCHANGED <<gs, cmd, pending, spawned>>

\* commands::undo_move, lines 118-121
UndoLockState(t) ==
    /\ at[t].pc = "undo_move:GAME_STATE"
    /\ Free(GAME_STATE)
    /\ gs' = Unwrap(at[t].previous_state)
    /\ holder' = ReleaseAll(t)
    /\ at' = Goes(t, Idle, None)
    /\ call' = Called("undo_move", t, NewPosition(0, 0), NewPosition(0, 0))
    /\ ret' = Returned("Ok", NoMoves)
    /\ pre' = gs
    /\ UNCHANGED <<history, cmd, pending, spawned>>

\* commands::reset_game, lines 126-127
ResetLockState(t) ==
    /\ Outside(t)
    /\ Free(GAME_STATE)
    /\ gs' = GameState_new
    /\ holder' = Acquire(t, GAME_STATE)
    /\ at' = Goes(t, "reset_game:MOVE_HISTORY", None)
    /\ pre' = gs
    /\ UNCHANGED <<history, cmd, pending, spawned, call, ret>>

\* commands::reset_game, lines 130-133
ResetLockHistory(t) ==
    /\ at[t].pc = "reset_game:MOVE_HISTORY"
    /\ Free(MOVE_HISTORY)
    /\ history' = <<>>
    /\ holder' = ReleaseAll(t)
    /\ at' = Goes(t, Idle, None)
    /\ call' = Called("reset_game", t, NewPosition(0, 0), NewPosition(0, 0))
    /\ ret' = Returned("Ok", NoMoves)
    /\ UNCHANGED <<gs, cmd, pending, spawned, pre>>

\* commands::start_new_game, lines 138-139
StartLockState(t, config) ==
    /\ Outside(t)
    /\ Free(GAME_STATE)
    /\ gs' = new_with_config(config)
    /\ holder' = Acquire(t, GAME_STATE)
    /\ at' = Goes(t, "start_new_game:MOVE_HISTORY", None)
    /\ pre' = gs
    /\ UNCHANGED <<history, cmd, pending, spawned, call, ret>>

\* commands::start_new_game, from the lock of MOVE_HISTORY to the return
StartLockHistory(t) ==
    /\ at[t].pc = "start_new_game:MOVE_HISTORY"
    /\ Free(MOVE_HISTORY)
    /\ history' = <<>>
    /\ holder' = ReleaseAll(t)
    /\ at' = Goes(t, Idle, None)
    /\ call' = Called("start_new_game", t, NewPosition(0, 0), NewPosition(0, 0))
    /\ ret' = Returned("Ok", NoMoves)
    /\ UNCHANGED <<gs, cmd, pending, spawned, pre>>

\* the indices SliceRandom::choose draws in the worker
WorkerPicks == {1, 2}

\* the spawned thread, lines 83-93: it runs when it gets GAME_STATE
LockedWorker ==
    /\ pending > 0
    /\ Free(GAME_STATE)
    /\ LET moves == all_moves(gs)
       IN  \E pick \in {p \in WorkerPicks : p = 1 \/ p <= Len(moves)} :
              LET r == make_ai_move(gs, moves, pick)
              IN  /\ gs' = r.state
                  /\ ret' = Returned(r.result, NoMoves)
                  /\ call' = Called("move_piece_from", "worker", r.from, r.to)
    /\ pending' = pending - 1
    /\ pre' = gs
    /\ UNCHANGED <<history, cmd, spawned, at, holder>>

\* the mutex a caller inside a command acquires next
Wants(t) ==
    CASE at[t].pc \in {"move_piece:MOVE_HISTORY", "reset_game:MOVE_HISTORY",
                       "start_new_game:MOVE_HISTORY"} -> MOVE_HISTORY
      [] at[t].pc \in {"move_piece:GAME_STATE", "undo_move:GAME_STATE"} -> GAME_STATE
      [] OTHER -> "nothing"

LockedSelect == \E t \in CommandThreads : \E pos \in SelectInputs : LockedSelectSquare(t, pos)

LockedGet == \E t \in CommandThreads : LockedGetGameState(t)

LockedMoveFirst ==
    \E t \in CommandThreads : Len(history) < MaxLockHist /\ MovePieceLockState(t)

LockedMovePush == \E t \in CommandThreads : MovePieceLockHistory(t)

LockedMoveApply ==
    \E t \in CommandThreads : \E m \in AiMoveInputs :
        WithinBounds(gs, m[1], m[2], MaxLockPlies) /\ MovePieceLockAgain(t, m[1], m[2])

LockedUndoFirst == \E t \in CommandThreads : UndoLockHistory(t)

LockedUndoRestore == \E t \in CommandThreads : UndoLockState(t)

LockedResetFirst == \E t \in CommandThreads : ResetLockState(t)

LockedResetClear == \E t \in CommandThreads : ResetLockHistory(t)

LockedStartFirst ==
    \E t \in CommandThreads : \E c \in ConfigInputs : StartLockState(t, c)

LockedStartClear == \E t \in CommandThreads : StartLockHistory(t)

NextLocks ==
    \/ LockedGet
    \/ LockedSelect
    \/ LockedMoveFirst
    \/ LockedMovePush
    \/ LockedMoveApply
    \/ LockedUndoFirst
    \/ LockedUndoRestore
    \/ LockedResetFirst
    \/ LockedResetClear
    \/ LockedStartFirst
    \/ LockedStartClear
    \/ LockedWorker

SpecLocks == Init /\ [][NextLocks]_vars

---------------------------------------------------------------------------
(* The claims *)

MoveReturned == call.op = "move_piece_from"

MoveSucceeded == MoveReturned /\ ret.result = "Ok"

Last(s) == s[Len(s)]

Front(s) == SubSeq(s, 1, Len(s) - 1)

PieceLetter(piece_type) ==
    CASE piece_type = "Pawn" -> ""
      [] piece_type = "Rook" -> "R"
      [] piece_type = "Knight" -> "N"
      [] piece_type = "Bishop" -> "B"
      [] piece_type = "Queen" -> "Q"
      [] piece_type = "King" -> "K"

\* files a-h for x = 0..7, ranks 8..1 for y = 0..7
SquareName(pos) ==
    SubSeq("abcdefgh", pos.x + 1, pos.x + 1) \o SubSeq("87654321", pos.y + 1, pos.y + 1)

ExpectedNotation(before, from, to) ==
    PieceLetter(before.board.board[from.y][from.x][1].piece_type)
        \o SquareName(from)
        \o (IF before.board.board[to.y][to.x] # <<>> THEN "x" ELSE "-")
        \o SquareName(to)

\* C1: every successful move_piece_from flips current_player, clears the selection
\* and possible_moves, and appends exactly one string
\* <PieceLetter><fromFile><fromRank><'x'|'-'><toFile><toRank> to move_history, 'x'
\* iff the destination was occupied; on a fresh game (4,6)->(4,4) gives Black to
\* move, move_history = ["e2-e4"] and is_check = false.
C1_MoveEffects ==
    MoveSucceeded =>
        /\ gs.current_player = opposite(pre.current_player)
        /\ gs.selected_square = None
        /\ gs.possible_moves = <<>>
        /\ gs.move_history =
              Append(pre.move_history, ExpectedNotation(pre, call.from, call.to))
        /\ (pre = GameState_new /\ call.from = P(4, 6) /\ call.to = P(4, 4)) =>
              /\ gs.current_player = Black
              /\ gs.move_history = <<"e2-e4">>
              /\ gs.is_check = FALSE

C1_Witness ==
    /\ MoveSucceeded
    /\ Len(gs.move_history) >= 2
    /\ gs.move_history[1] = "e2-e4"
    /\ Last(gs.move_history) = "Qh5xe8"

\* C2: a move_piece_from that returns an error leaves the whole GameState as it was.
C2_FailedMoveUnchanged ==
    (MoveReturned /\ ret.result # "Ok") => gs = pre

C2_Witness ==
    /\ MoveReturned
    /\ ret.result = "Invalid move"
    /\ IsSome(get_piece(pre.board, call.from))
    /\ IsSome(pre.selected_square)
    /\ call.to.y >= 8

\* the piece a move lands on
Target == get_piece(pre.board, call.to)

\* C3: a successful move onto a King sets game_over and makes the mover (the
\* current_player before the flip) the winner; any other successful move leaves
\* game_over and winner as they were.
C3_KingCapture ==
    MoveSucceeded =>
        IF IsSome(Target) /\ Unwrap(Target).piece_type = "King"
        THEN gs.game_over /\ gs.winner = Some(pre.current_player)
        ELSE gs.game_over = pre.game_over /\ gs.winner = pre.winner

C3_Witness ==
    /\ MoveSucceeded
    /\ IsSome(Target)
    /\ Unwrap(Target).piece_type = "King"
    /\ ~pre.game_over
    /\ gs.game_over
    /\ gs.winner = Some(pre.current_player)

\* C4: once game_over is true every move attempt is rejected, so the board,
\* current_player and winner no longer change by a move.
C4_NoMoveAfterGameOver ==
    (MoveReturned /\ pre.game_over) =>
        /\ ret.result # "Ok"
        /\ gs.board = pre.board
        /\ gs.current_player = pre.current_player
        /\ gs.winner = pre.winner

\* C5: the snapshot a move_piece command pushes equals the shared game state at
\* the instant before that command's own move is applied.
C5_SnapshotIsStateBeforeMove ==
    (MoveSucceeded /\ call.by = "command") =>
        /\ history # <<>>
        /\ Last(history) = pre

\* C6: the undo stack never holds more than 50 snapshots; a push onto a full
\* stack discards exactly the oldest snapshot and keeps the order of the rest.
C6_HistoryCapped ==
    /\ [](Len(history) <= 50)
    /\ [][call'.op = "snapshot" =>
            history' = IF Len(history) >= 50
                       THEN Append(Tail(history), gs)
                       ELSE Append(history, gs)]_vars

C6_Witness ==
    /\ call.op = "snapshot"
    /\ Len(history) = 50
    /\ history[1] # GameState_new
    /\ Last(history) = pre

\* C7: a successful move through the move command followed by undo_move restores
\* the GameState the move was made in and removes exactly one snapshot.
C7_MoveUndoRoundTrip ==
    [][(MoveSucceeded /\ call.by = "command" /\ call'.op = "undo_move") =>
            /\ ret'.result = "Ok"
            /\ gs' = pre
            /\ history' = Front(history)]_vars

C7_Witness ==
    /\ call.op = "undo_move"
    /\ ret.result = "Ok"
    /\ Len(pre.move_history) = Len(gs.move_history) + 1
    /\ Last(pre.move_history) = "e4xf5"
    /\ gs.board # pre.board
    /\ Len(gs.board.captured_pieces) < Len(pre.board.captured_pieces)

SelectReturned == call.op = "select_square"

\* whether pos holds a piece of the player to move
OwnPiece(state, pos) ==
    /\ pos.x < 8
    /\ pos.y < 8
    /\ state.board.board[pos.y][pos.x] # <<>>
    /\ state.board.board[pos.y][pos.x][1].color = state.current_player

\* C8: select_square changes nothing but selected_square and possible_moves; on a
\* piece of the player to move it pins the square, stores calculate_moves_for(pos)
\* and returns that sequence.
C8_SelectFrame ==
    SelectReturned =>
        /\ gs.board = pre.board
        /\ gs.current_player = pre.current_player
        /\ gs.game_over = pre.game_over
        /\ gs.winner = pre.winner
        /\ gs.is_check = pre.is_check
        /\ gs.move_history = pre.move_history
        /\ gs.config = pre.config
        /\ OwnPiece(pre, call.from) =>
              /\ gs.selected_square = Some(call.from)
              /\ gs.possible_moves = calculate_moves_for(pre.board, call.from)
              /\ ret.moves = gs.possible_moves

C8_Witness ==
    /\ SelectReturned
    /\ OwnPiece(pre, call.from)
    /\ Len(pre.move_history) > 0
    /\ gs.selected_square = Some(call.from)
    /\ Len(ret.moves) = 2

AllPositions == {P(x, y) : x \in 0..8, y \in 0..8}

\* C9: select_square on a square that holds no piece of the player to move (an
\* opponent's piece, no piece, off the board) clears the selection and
\* possible_moves and returns the empty list whatever was selected before, and a
\* second application changes nothing.
C9_SelectClears ==
    /\ (SelectReturned /\ ~OwnPiece(pre, call.from)) =>
          /\ gs.selected_square = None
          /\ gs.possible_moves = <<>>
          /\ ret.moves = <<>>
    /\ \A pos \in AllPositions :
          ~OwnPiece(gs, pos) =>
              LET once == select_square(gs, pos)
                  twice == select_square(once.state, pos)
              IN  /\ once.state.selected_square = None
                  /\ once.state.possible_moves = <<>>
                  /\ once.moves = <<>>
                  /\ twice = once

C9_Witness ==
    /\ SelectReturned
    /\ ~OwnPiece(pre, call.from)
    /\ IsSome(pre.selected_square)
    /\ pre.possible_moves # <<>>
    /\ gs.selected_square = None

\* C10: a move_piece_from whose source square holds no piece fails with the
\* no-piece-at-source error of the Board, not with the invalid-move error.
C10_NoPieceErrorDistinct ==
    (MoveReturned /\ call.from.x < 8 /\ call.from.y < 8
        /\ pre.board.board[call.from.y][call.from.x] = <<>>) =>
            ret.result = "No piece at source position"

\* the number of occupied squares of a grid
PieceCount(grid) ==
    Cardinality({p \in (0..7) \X (0..7) : grid[p[1]][p[2]] # <<>>})

\* C11: pieces on the grid plus captured pieces always number 32; a successful
\* move appends exactly the piece that stood on the destination to the end of
\* captured_pieces in the step in which it leaves the grid, and leaves
\* captured_pieces alone when the destination was empty; the rest of the grid
\* changes only by the mover leaving its source for the destination.
C11_PieceConservation ==
    /\ PieceCount(gs.board.board) + Len(gs.board.captured_pieces) = 32
    /\ MoveSucceeded =>
          /\ gs.board.captured_pieces =
                IF IsSome(Target)
                THEN Append(pre.board.captured_pieces, Unwrap(Target))
                ELSE pre.board.captured_pieces
          /\ \A y \in 0..7, x \in 0..7 :
                gs.board.board[y][x] =
                    IF P(x, y) = call.to THEN pre.board.board[call.from.y][call.from.x]
                    ELSE IF P(x, y) = call.from THEN <<>>
                    ELSE pre.board.board[y][x]

C11_Witness ==
    /\ MoveSucceeded
    /\ IsSome(Target)
    /\ Len(pre.board.captured_pieces) = 1
    /\ gs.board.captured_pieces =
          <<NewPiece("Pawn", Black), NewPiece("King", Black)>>
    /\ PieceCount(gs.board.board) = 30

GenReturned == call.op = "calculate_moves_for"

AsSet(seq) == {seq[i] : i \in 1..Len(seq)}

NoDuplicates(seq) == Cardinality(AsSet(seq)) = Len(seq)

BoardSquares == {P(x, y) : x \in 0..7, y \in 0..7}

\* what stands on pos: <<>> for an empty square and for a position off the board
PieceOn(state, pos) ==
    IF OnBoard(pos.x, pos.y) THEN state.board.board[pos.y][pos.x] ELSE <<>>

EmptyAt(state, x, y) == OnBoard(x, y) /\ state.board.board[y][x] = <<>>

EnemyAt(state, x, y, color) ==
    /\ OnBoard(x, y)
    /\ state.board.board[y][x] # <<>>
    /\ state.board.board[y][x][1].color # color

\* the piece calculate_moves_for was asked about is of one of these types
AskedAbout(types) ==
    /\ GenReturned
    /\ PieceOn(pre, call.from) # <<>>
    /\ PieceOn(pre, call.from)[1].piece_type \in types

PawnTargets(state, pos, color) ==
    LET d == IF color = White THEN -1 ELSE 1
        start == IF color = White THEN 6 ELSE 1
    IN  {q \in BoardSquares :
            \/ q = P(pos.x, pos.y + d) /\ EmptyAt(state, q.x, q.y)
            \/ /\ q = P(pos.x, pos.y + 2 * d)
               /\ pos.y = start
               /\ EmptyAt(state, pos.x, pos.y + d)
               /\ EmptyAt(state, q.x, q.y)
            \/ /\ q.y = pos.y + d
               /\ q.x \in {pos.x - 1, pos.x + 1}
               /\ EnemyAt(state, q.x, q.y, color)}

\* C12: a pawn's targets are exactly: one step forward iff that square is empty,
\* two steps forward iff the pawn is on its starting rank and both squares are
\* empty, each forward diagonal iff it holds a piece of the opposite color; so on
\* the starting rank there are 2, 1 or 0 forward targets as both, only the first,
\* or not the first of the squares ahead are empty.
C12_PawnMoves ==
    AskedAbout({"Pawn"}) =>
        LET color == PieceOn(pre, call.from)[1].color
            d == IF color = White THEN -1 ELSE 1
            x == call.from.x
            y == call.from.y
            forward == {q \in AsSet(ret.moves) : q.x = x}
        IN  /\ AsSet(ret.moves) = PawnTargets(pre, call.from, color)
            /\ NoDuplicates(ret.moves)
            /\ y = (IF color = White THEN 6 ELSE 1) =>
                  Cardinality(forward) =
                      IF ~EmptyAt(pre, x, y + d) THEN 0
                      ELSE IF ~EmptyAt(pre, x, y + 2 * d) THEN 1
                      ELSE 2

C12_Witness ==
    /\ AskedAbout({"Pawn"})
    /\ call.from = P(4, 6)
    /\ PieceOn(pre, call.from)[1].color = White
    /\ PieceOn(pre, P(4, 4)) # <<>>
    /\ AsSet(ret.moves) = {P(4, 5), P(5, 5)}

QueenRays == {<<dx, dy>> : dx \in {-1, 0, 1}, dy \in {-1, 0, 1}} \ {<<0, 0>>}

Rays(piece_type) ==
    CASE piece_type = "Rook" -> {r \in QueenRays : r[1] = 0 \/ r[2] = 0}
      [] piece_type = "Bishop" -> {r \in QueenRays : r[1] # 0 /\ r[2] # 0}
      [] piece_type = "Queen" -> QueenRays

SlidingTargets(state, pos, color, rays) ==
    {q \in BoardSquares :
        \E r \in rays, k \in 1..7 :
            /\ q = P(pos.x + k * r[1], pos.y + k * r[2])
            /\ \A j \in 1..(k - 1) : EmptyAt(state, pos.x + j * r[1], pos.y + j * r[2])
            /\ EmptyAt(state, q.x, q.y) \/ EnemyAt(state, q.x, q.y, color)}

\* C13: a rook's, bishop's or queen's targets are exactly, along each of its
\* directions, the run of empty squares next to it and then the first occupied
\* square iff it holds a piece of the opposite color; nothing behind the first
\* occupied square, and no limit but the edge of the board.
C13_SlidingMoves ==
    AskedAbout({"Rook", "Bishop", "Queen"}) =>
        LET piece == PieceOn(pre, call.from)[1]
        IN  /\ AsSet(ret.moves) =
                  SlidingTargets(pre, call.from, piece.color, Rays(piece.piece_type))
            /\ NoDuplicates(ret.moves)

C13_Witness ==
    /\ AskedAbout({"Queen"})
    /\ call.from = P(3, 4)
    /\ EnemyAt(pre, 3, 3, PieceOn(pre, call.from)[1].color)
    /\ PieceOn(pre, P(3, 2)) # <<>>
    /\ P(3, 3) \in AsSet(ret.moves)
    /\ P(3, 2) \notin AsSet(ret.moves)
    /\ P(3, 7) \in AsSet(ret.moves)
    /\ P(7, 0) \in AsSet(ret.moves)

JumpOffsets(piece_type) ==
    IF piece_type = "Knight"
    THEN {<<dx, dy>> \in {-2, -1, 1, 2} \X {-2, -1, 1, 2} : dx * dx + dy * dy = 5}
    ELSE QueenRays

\* C14: every target calculate_moves_for returns is on the board, is not the
\* square asked about, and is empty or holds a piece of the opposite color; an
\* empty square and a position off the board have no targets; a knight's or
\* king's targets are exactly its 8 offsets that pass these conditions; the
\* knight at (1,0) of the fresh board has exactly the targets (0,2) and (2,2).
C14_TargetsAdmissible ==
    GenReturned =>
        LET asked == PieceOn(pre, call.from)
        IN  /\ asked = <<>> => ret.moves = <<>>
            /\ asked # <<>> =>
                  \A q \in AsSet(ret.moves) :
                      /\ OnBoard(q.x, q.y)
                      /\ q # call.from
                      /\ EmptyAt(pre, q.x, q.y) \/ EnemyAt(pre, q.x, q.y, asked[1].color)
            /\ AskedAbout({"Knight", "King"}) =>
                  /\ AsSet(ret.moves) =
                        {q \in BoardSquares :
                            /\ <<q.x - call.from.x, q.y - call.from.y>>
                                  \in JumpOffsets(asked[1].piece_type)
                            /\ EmptyAt(pre, q.x, q.y)
                                  \/ EnemyAt(pre, q.x, q.y, asked[1].color)}
                  /\ NoDuplicates(ret.moves)
            /\ (pre.board = ChessBoard_new /\ call.from = P(1, 0)) =>
                  /\ AsSet(ret.moves) = {P(0, 2), P(2, 2)}
                  /\ Len(ret.moves) = 2

C14_Witness ==
    /\ AskedAbout({"Knight"})
    /\ call.from = P(3, 4)
    /\ PieceOn(pre, P(4, 2)) # <<>>
    /\ ~EnemyAt(pre, 4, 2, PieceOn(pre, call.from)[1].color)
    /\ Len(ret.moves) = 7
    /\ P(4, 2) \notin AsSet(ret.moves)

\* C15: is_king_in_check(c) answers true iff a king of color c stands on the
\* board and some piece of the opposite color has that king's square among its
\* calculate_moves_for targets; without a king of color c it answers false.
C15_CheckDetection ==
    call.op = "is_king_in_check" =>
        LET c == call.by
            kings == {k \in BoardSquares : PieceOn(pre, k) = <<NewPiece("King", c)>>}
            attacked ==
                \E k \in kings, q \in BoardSquares :
                    /\ EnemyAt(pre, q.x, q.y, c)
                    /\ k \in AsSet(calculate_moves_for(pre.board, q))
        IN  /\ ret.result = BoolString(attacked)
            /\ kings = {} => ret.result = "false"

C15_Witness ==
    /\ call.op = "is_king_in_check"
    /\ ret.result = "true"
    /\ PieceOn(pre, P(3, 4)) = <<NewPiece("Rook", opposite(call.by))>>
    /\ PieceOn(pre, P(3, 2)) = <<NewPiece("King", call.by)>>
    /\ PieceOn(pre, P(3, 3)) = <<>>

\* the (from, to) pairs open to the side to move: from holds one of its pieces
\* and to is among calculate_moves_for(from)
MoverMoves(state) ==
    UNION { { <<from, to>> : to \in AsSet(calculate_moves_for(state.board, from)) } :
            from \in {q \in BoardSquares :
                        /\ PieceOn(state, q) # <<>>
                        /\ PieceOn(state, q)[1].color = state.current_player} }

Chosen == <<call.from, call.to>>

After(state, m) == move_piece_from(state, m[1], m[2]).state

\* the Easy strategy has run: make_random_move of ai.rs, or the automated turn
\* of the command layer at difficulty Easy
EasyRan ==
    \/ call.op = "make_random_move"
    \/ /\ call.op = "move_piece_from"
       /\ call.by = "worker"
       /\ pre.config.difficulty = Some("EASY")

\* C16: with at least one move open to the side to move, the Easy strategy applies
\* exactly one move (from, to), from holding a piece of the side to move and to
\* among calculate_moves_for(from); with exactly one move open, that move is the
\* one applied whatever is drawn.
C16_EasyAppliesOneMove ==
    (EasyRan /\ MoverMoves(pre) # {}) =>
        /\ ret.result = "Ok"
        /\ Chosen \in MoverMoves(pre)
        /\ gs = After(pre, Chosen)
        /\ Len(gs.move_history) = Len(pre.move_history) + 1
        /\ Cardinality(MoverMoves(pre)) = 1 => MoverMoves(pre) = {Chosen}

C16_Witness ==
    /\ EasyRan
    /\ pre.current_player = Black
    /\ Cardinality(MoverMoves(pre)) = 1
    /\ PieceCount(pre.board.board) = 2
    /\ ret.result = "Ok"
    /\ gs.current_player = White

\* the automated turn of the command layer has applied a move at difficulty Medium
MediumTurnMoved ==
    /\ call.op = "move_piece_from"
    /\ call.by = "worker"
    /\ pre.config.difficulty = Some("MEDIUM")
    /\ ret.result = "Ok"

GivesCheck(state, m) == After(state, m).is_check

Captures(state, m) == PieceOn(state, m[2]) # <<>>

\* C17: the move an automated turn at difficulty Medium applies gives check if a
\* checking move exists, else captures if a capture exists.
C17_MediumPriority ==
    MediumTurnMoved =>
        IF \E m \in MoverMoves(pre) : GivesCheck(pre, m)
        THEN GivesCheck(pre, Chosen)
        ELSE (\E m \in MoverMoves(pre) : Captures(pre, m)) => Captures(pre, Chosen)

\* C18: the move find_best_move(state, 1) returns is open to the side to move and
\* no other open move leads to a position that evaluate_position scores higher
\* from the mover's perspective.
C18_DepthOneIsGreedy ==
    (call.op = "find_best_move" /\ ret.result = "Ok") =>
        /\ Chosen \in MoverMoves(pre)
        /\ \A m \in MoverMoves(pre) :
              evaluate_position(After(pre, m), pre.current_player)
                  <= evaluate_position(After(pre, Chosen), pre.current_player)

StrategyRan ==
    call.op \in {"make_random_move", "make_medium_ai_move", "make_hard_ai_move"}

\* C19: each strategy of ai.rs returns an error exactly when no move is open to
\* the side to move; on the error the state is as before, otherwise one move has
\* been applied.
C19_ErrorIffNoMoves ==
    StrategyRan =>
        /\ ret.result # "Ok" <=> MoverMoves(pre) = {}
        /\ ret.result # "Ok" => gs = pre
        /\ ret.result = "Ok" =>
              /\ Chosen \in MoverMoves(pre)
              /\ gs = After(pre, Chosen)

Material(piece_type) ==
    CASE piece_type = "Pawn" -> 100
      [] piece_type \in {"Knight", "Bishop"} -> 300
      [] piece_type = "Rook" -> 500
      [] piece_type = "Queen" -> 900
      [] piece_type = "King" -> 10000

\* the bonus of a piece: its table read at the row mirrored for Black
Bonus(piece, q) ==
    LET row == IF piece.color = Black THEN 7 - q.y ELSE q.y
    IN  CASE piece.piece_type = "Pawn" -> pawn_position_bonus[row + 1][q.x + 1]
          [] piece.piece_type = "Knight" -> knight_position_bonus[row + 1][q.x + 1]
          [] piece.piece_type = "Bishop" -> bishop_position_bonus[row + 1][q.x + 1]
          [] OTHER -> 0

RECURSIVE SignedSum(_, _, _)
SignedSum(state, color, squares) ==
    IF squares = {} THEN 0
    ELSE LET q == CHOOSE sq \in squares : TRUE
             piece == PieceOn(state, q)[1]
             worth == Material(piece.piece_type) + Bonus(piece, q)
         IN  (IF piece.color = color THEN worth ELSE -worth)
                 + SignedSum(state, color, squares \ {q})

Occupied(state) == {q \in BoardSquares : PieceOn(state, q) # <<>>}

\* C20: evaluate_position(s, c) + evaluate_position(s, opposite(c)) is 0 when
\* s.is_check is false and -50 when it is true; the score is the signed sum over
\* the occupied squares of material value plus position bonus, the bonus row
\* mirrored for Black, less 50 for the perspective of the side to move in check.
C20_EvaluatorAntisymmetry ==
    call.op = "evaluate_position" =>
        /\ ret.score + evaluate_position(pre, opposite(call.by)) =
              IF pre.is_check THEN -50 ELSE 0
        /\ ret.score =
              SignedSum(pre, call.by, Occupied(pre))
                  - (IF pre.is_check /\ pre.current_player = call.by THEN 50 ELSE 0)

C20_Witness ==
    /\ call.op = "evaluate_position"
    /\ pre.is_check
    /\ call.by = White
    /\ pre.current_player = White
    /\ PieceOn(pre, P(3, 4)) = <<NewPiece("Bishop", Black)>>
    /\ PieceOn(pre, P(4, 5)) = <<NewPiece("King", White)>>
    /\ ret.score = 10000 - (300 + 10) - 50

\* C21: in every state reached from a fresh game by select, move, undo and
\* automated moves, is_check equals is_king_in_check(board, current_player); a
\* successful move leaves the flag computed for the player now to move.
C21_CheckFlagCurrent ==
    /\ gs.is_check = is_king_in_check(gs.board, gs.current_player)
    /\ \A i \in 1..Len(history) :
          history[i].is_check =
              is_king_in_check(history[i].board, history[i].current_player)
    /\ MoveSucceeded =>
          gs.is_check = is_king_in_check(gs.board, opposite(pre.current_player))

C21_Witness ==
    /\ call.op = "undo_move"
    /\ ret.result = "Ok"
    /\ gs.is_check
    /\ gs.current_player = Black
    /\ Last(gs.move_history) = "Qd1-h5"
    /\ ~pre.is_check

\* C23: in every state reached from a fresh game, game_over is true iff
\* captured_pieces contains a King; winner is set iff game_over is true, and is
\* then the color opposite to a captured King.
C23_GameOverIffKingCaptured ==
    LET kings == {i \in 1..Len(gs.board.captured_pieces) :
                    gs.board.captured_pieces[i].piece_type = "King"}
    IN  /\ gs.game_over <=> kings # {}
        /\ IsSome(gs.winner) <=> gs.game_over
        /\ gs.game_over =>
              \E i \in kings :
                  Unwrap(gs.winner) = opposite(gs.board.captured_pieces[i].color)

\* C22: in every reachable state, selected_square is set only if it holds a piece
\* of current_player and possible_moves is nonempty and equal to
\* calculate_moves_for(selected_square) on the current board; when
\* selected_square is none, possible_moves is empty.
C22_SelectionInvariant ==
    IF IsSome(gs.selected_square)
    THEN /\ OwnPiece(gs, Unwrap(gs.selected_square))
         /\ gs.possible_moves # <<>>
         /\ gs.possible_moves = calculate_moves_for(gs.board, Unwrap(gs.selected_square))
    ELSE gs.possible_moves = <<>>

\* C22 as amended: in every reachable state, selected_square is set only if it
\* holds a piece of current_player and possible_moves equals
\* calculate_moves_for(selected_square) on the current board, which may be
\* empty; when selected_square is none, possible_moves is empty.
C22_SelectionConsistent ==
    IF IsSome(gs.selected_square)
    THEN /\ OwnPiece(gs, Unwrap(gs.selected_square))
         /\ gs.possible_moves = calculate_moves_for(gs.board, Unwrap(gs.selected_square))
    ELSE gs.possible_moves = <<>>

C22_Witness ==
    /\ call.op = "undo_move"
    /\ ret.result = "Ok"
    /\ pre.selected_square = None
    /\ pre.current_player = Black
    /\ gs.selected_square = Some(P(4, 6))
    /\ gs.possible_moves = <<P(4, 5), P(4, 4)>>

SearchReturned == call.op = "minimax"

FullWindow == call.alpha = I32_MIN /\ call.beta = I32_MAX

SetMax(S) == CHOOSE v \in S : \A w \in S : w <= v

SetMin(S) == CHOOSE v \in S : \A w \in S : v <= w

\* minimax without pruning: the value of a position is its static evaluation
\* from the perspective of its side to move at depth 0 or game_over, else the
\* largest (maximizing) or smallest (minimizing) value of the positions its
\* moves lead to, i32::MIN or i32::MAX without a move
RECURSIVE PlainMinimax(_, _, _)
PlainMinimax(state, depth, maximizing_player) ==
    IF depth = 0 \/ state.game_over
    THEN evaluate_position(state, state.current_player)
    ELSE LET values == { PlainMinimax(After(state, m), depth - 1, ~maximizing_player) :
                            m \in MoverMoves(state) }
         IN  IF maximizing_player THEN SetMax(values \cup {I32_MIN})
             ELSE SetMin(values \cup {I32_MAX})

\* the positions plain minimax scores below and including a position
RECURSIVE PlainNodes(_, _)
RECURSIVE PlainNodesOver(_, _, _)
PlainNodesOver(state, depth, moves) ==
    IF moves = {} THEN 0
    ELSE LET m == CHOOSE one \in moves : TRUE
         IN  PlainNodes(After(state, m), depth - 1)
                + PlainNodesOver(state, depth, moves \ {m})

PlainNodes(state, depth) ==
    IF depth = 0 \/ state.game_over THEN 1
    ELSE 1 + PlainNodesOver(state, depth, MoverMoves(state))

\* C24: minimax(state, d, flag, i32::MIN, i32::MAX) returns the value of plain
\* minimax without pruning over the same moves and the same leaf evaluation, so
\* find_best_move picks the move it would pick without pruning: the first move
\* in enumeration order whose plain value, as the minimizing opponent one ply
\* less deep, is the largest, and the error when no value exceeds i32::MIN.
C24_AlphaBetaSound ==
    /\ (SearchReturned /\ FullWindow) =>
          ret.score = PlainMinimax(pre, call.depth, call.maximizing_player)
    /\ call.op = "find_best_move" =>
          \E moves \in {ai_all_moves(pre)} :
             \E value \in {[i \in 1..Len(moves) |->
                              PlainMinimax(After(pre, moves[i]), HardDepth - 1, FALSE)]} :
                LET best == {i \in 1..Len(moves) :
                                /\ value[i] > I32_MIN
                                /\ \A j \in 1..Len(moves) :
                                      IF j < i THEN value[j] < value[i]
                                      ELSE value[j] <= value[i]}
                IN  IF best = {} THEN ret.result # "Ok"
                    ELSE ret.result = "Ok" /\ \A i \in best : Chosen = moves[i]

C24_Witness ==
    /\ SearchReturned
    /\ FullWindow
    /\ call.depth = 2
    /\ call.maximizing_player
    /\ ret.nodes < PlainNodes(pre, 2)
    /\ \E i \in 1..Len(ret.scored) : ret.scored[i].cut
    /\ ret.score = PlainMinimax(pre, 2, TRUE)

\* C25: once beta <= alpha holds after a child of a minimax node has been
\* scored, the node scores no further child move, of the same piece or of a
\* piece on a later square: a child that left beta <= alpha is the last one
\* scored.
C25_CutoffEndsNode ==
    SearchReturned =>
        \A i \in 1..Len(ret.scored) : ret.scored[i].cut => i = Len(ret.scored)

SearchingStrategyMoved ==
    /\ call.op \in {"make_medium_ai_move", "make_hard_ai_move"}
    /\ ret.result = "Ok"

\* C26: the moves the Medium and Hard strategies try while they choose leave no
\* trace in the live state: once the strategy has returned successfully the
\* state is the state it was called on after exactly one move_piece_from of the
\* chosen (from, to), a move open to the side to move; move_history is one
\* longer, captured_pieces has grown by the piece on the destination or not at
\* all, and the config is as before.
C26_SearchIsolation ==
    SearchingStrategyMoved =>
        /\ Chosen \in MoverMoves(pre)
        /\ move_piece_from(pre, call.from, call.to).result = "Ok"
        /\ gs = After(pre, Chosen)
        /\ Front(gs.move_history) = pre.move_history
        /\ gs.board.captured_pieces =
              pre.board.captured_pieces \o PieceOn(pre, call.to)
        /\ PieceCount(gs.board.board) =
              PieceCount(pre.board.board) - Len(PieceOn(pre, call.to))
        /\ gs.current_player = opposite(pre.current_player)
        /\ gs.config = pre.config

C26_Witness ==
    /\ call.op = "make_medium_ai_move"
    /\ ret.result = "Ok"
    /\ Cardinality(MoverMoves(pre)) > 2
    /\ \E m \in MoverMoves(pre) : GivesCheck(pre, m) /\ m # Chosen
    /\ gs.is_check
    /\ Len(gs.board.captured_pieces) = 0
    /\ \E m \in MoverMoves(pre) : Captures(pre, m)

CommandMoveRejected ==
    /\ MoveReturned
    /\ call.by = "command"
    /\ ret.result # "Ok"

\* C27: a move_piece command that is rejected leaves the shared game state and
\* the undo stack as they were before the command (at the move block the stack
\* holds the command's own snapshot on top of what it held before), so that a
\* following undo_move does not restore a duplicate of the current state.
C27_RejectedMoveChangesNothing ==
    /\ [][CommandMoveRejected' => (gs' = gs /\ history' = Front(history))]_vars
    /\ [](CommandMoveRejected => (history = <<>> \/ Last(history) # gs))

WorkerMoved ==
    /\ call.op = "move_piece_from"
    /\ call.by = "worker"
    /\ ret.result = "Ok"

\* C28: a worker is spawned only by a successful move command in AI mode that
\* leaves current_player different from the configured player_color, one worker
\* per such move; and whatever commands ran during its delay, the move a worker
\* applies is made in AI mode, on the AI's turn, with a piece of the non-human
\* color.
C28_AutomatedTurnDispatch ==
    /\ [][spawned' # spawned =>
            /\ spawned' = spawned + 1
            /\ pending' = pending + 1
            /\ call'.op = "move_piece_from"
            /\ call'.by = "command"
            /\ ret'.result = "Ok"
            /\ gs'.config.mode = "AI"
            /\ gs'.current_player # PlayerColorOrDefault(gs'.config)]_vars
    /\ [](WorkerMoved =>
            /\ pre.config.mode = "AI"
            /\ pre.current_player # PlayerColorOrDefault(pre.config)
            /\ PieceOn(pre, call.from) # <<>>
            /\ PieceOn(pre, call.from)[1].color # PlayerColorOrDefault(pre.config))

\* C30: move_piece_from succeeds only if `from` holds a piece of current_player;
\* so the pieces moved alternate White, Black, White, ... and move_history has
\* even length iff current_player is White.
C30_TurnEnforcement ==
    /\ MoveSucceeded =>
          /\ PieceOn(pre, call.from) # <<>>
          /\ PieceOn(pre, call.from)[1].color = pre.current_player
          /\ PieceOn(pre, call.from)[1].color =
                (IF Len(pre.move_history) % 2 = 0 THEN White ELSE Black)
    /\ (Len(gs.move_history) % 2 = 0) <=> (gs.current_player = White)

\* C29: the commands and the worker never wait for each other's mutex in a
\* circle: there are no two callers, each inside a command, each waiting for a
\* mutex the other holds, so every lock() returns and every command returns.
C29_NoCircularWait ==
    \A t, u \in CommandThreads :
        ~ /\ t # u
          /\ Wants(t) \in Mutexes
          /\ Wants(u) \in Mutexes
          /\ holder[Wants(t)] = u
          /\ holder[Wants(u)] = t

\* the move m of the side to move lands on the opponent's King
TakesKing(state, m) ==
    get_piece(state.board, m[2]) = Some(NewPiece("King", opposite(state.current_player)))

\* C31: whenever the side to move has a move that captures the opponent's
\* King, the move find_best_move(state, 3) returns captures the King, so the
\* state after it has game_over set and the mover as winner.
C31_HardTakesTheWin ==
    (call.op = "find_best_move" /\ \E m \in MoverMoves(pre) : TakesKing(pre, m)) =>
        /\ ret.result = "Ok"
        /\ TakesKing(pre, Chosen)
        /\ After(pre, Chosen).game_over
        /\ After(pre, Chosen).winner = Some(pre.current_player)

====
